---------------------------- MODULE Spec2Model ----------------------------
(***************************************************************************)
(* Model of the trading decision engine of kalshi-weather-bot:             *)
(*   - Strategy.place_order and its risk ledger    (src/strategy/base.py)  *)
(*   - Strategy.run, the scheduler lifecycle       (src/strategy/base.py)  *)
(*   - BTCHedgedStrategy, the window state machine (src/strategy/          *)
(*                                                  btc_hedged.py)         *)
(*   - BaseClient._request, the retrying gateway   (src/clients/base.py)   *)
(*                                                                         *)
(* Money is kept in whole cents: the code's dollar amounts                 *)
(* (contracts * price / 100, max_daily_risk) are the model's numbers       *)
(* divided by 100.  Percent moves of the reference price are compared as   *)
(* exact rationals (cross-multiplied), not as binary floating point.       *)
(***************************************************************************)
EXTENDS Integers, Sequences, FiniteSets, TLC

(***************************************************************************)
(* Bounds of the model.                                                    *)
(***************************************************************************)
MaxCalls == 3
MaxContracts == 2
MaxTicks == 3
MaxRuns == 2
MaxDuration == 2
MaxRetries == 2
MaxRate == 2
MaxRequests == 3
MaxIdle == 1
MaxClock == 7

(***************************************************************************)
(* Input sets.                                                             *)
(***************************************************************************)
Tickers == {"W1", "W2"}
\* the ticker of the direct place_order calls (it is only copied into the order)
LedgerTickers == {"W1"}
Sides == {"buy", "sell"}
\* order prices handed to place_order directly, in cents
LedgerPrices == {0, 25, 50}
\* max_daily_risk, in cents
RiskCeilings == {100, 125}
\* what the order-placement collaborator does with a forwarded order
CollabOutcomes == {"order", "raise"}

NoCall == [outcome |-> "none", ticker |-> "", contracts |-> 0, price |-> 0,
           side |-> "", risk_before |-> 0]

VARIABLES
    max_daily_risk,     \* Strategy.max_daily_risk, in cents
    dry_run,            \* Strategy.dry_run
    _daily_risk,        \* Strategy._daily_risk, in cents
    _orders_placed,     \* Strategy._orders_placed
    kalshi_calls,       \* number of kalshi.place_order invocations so far
    ncalls,             \* number of Strategy.place_order invocations so far
    last_call           \* arguments and outcome of the latest place_order

ledgerVars == <<max_daily_risk, dry_run, _daily_risk, _orders_placed,
                kalshi_calls, ncalls, last_call>>

VARIABLES
    run_pc,             \* where Strategy.run stands
    _start_time,        \* Strategy._start_time (-1 before the first run)
    stop_pc,            \* where this execution stood when stop() was called
    duration_minutes,   \* run's argument (NoEnd for None)
    startup_failed,     \* setup or on_start raised in this execution
    _running,           \* Strategy._running
    end_time,           \* run's local end_time (NoEnd for None)
    run_clock,          \* the wall clock, in minutes
    calls,              \* the hooks this execution of run has called, in order
    pending,            \* the exception that will leave run, if any
    exit_reason,        \* why this execution left the try block
    tick_failed,        \* the latest on_tick raised an Exception
    nticks,             \* on_tick calls of this execution
    runs                \* executions of run started so far

runVars == <<run_pc, _start_time, stop_pc, duration_minutes, startup_failed, _running, end_time, run_clock, calls, pending,
             exit_reason, tick_failed, nticks, runs>>

VARIABLES
    max_retries,        \* BaseClient.max_retries
    rate_limit,         \* BaseClient.rate_limit, requests per second
    _request_times,     \* BaseClient._request_times
    clk,                \* time.time(), in units of 1/Second seconds
    req_pc,             \* where BaseClient._request stands
    attempt,            \* the loop variable of _request
    last_exception,     \* the local last_exception of _request
    outcomes,           \* what each attempt of this request met, in order
    result,             \* what _request returned or raised
    backoffs,           \* backoff sleeps of this request
    nrequests,          \* requests started so far
    idle                \* time units spent between requests so far

clientVars == <<max_retries, rate_limit, _request_times, clk, req_pc, attempt,
                last_exception, outcomes, result, backoffs, nrequests, idle>>

VARIABLES
    cfg,                    \* the BTCHedgedStrategy constructor arguments
    hclock,                 \* datetime.now(), in minutes
    _positions,             \* BTCHedgedStrategy._positions
    _window_start_prices,   \* BTCHedgedStrategy._window_start_prices
    _traded_windows,        \* BTCHedgedStrategy._traded_windows
    _windows_traded,        \* statistics counters
    _windows_hedged,
    _windows_won,
    _total_pnl_cents,
    last_tick               \* what the latest on_tick did

hedgedVars == <<cfg, hclock, _positions, _window_start_prices,
                _traded_windows, _windows_traded, _windows_hedged,
                _windows_won, _total_pnl_cents, last_tick>>

\* the Strategy fields that BTCHedgedStrategy.on_tick reads or writes
strategyVars == <<max_daily_risk, dry_run, _daily_risk, _orders_placed>>
\* the records of the direct place_order calls
callVars == <<kalshi_calls, ncalls, last_call>>

VARIABLES
    market,             \* the Market handed to the spread selector (its buckets)
    forecast,           \* the forecast handed to it: a probability per bucket
    spread_call,        \* the selector function that was called, with its arguments
    spread_ret          \* what that call returned

spreadVars == <<market, forecast, spread_call, spread_ret>>

VARIABLES
    bot_cfg,                 \* the BTCBotStrategy constructor arguments
    _traded_markets,         \* BTCBotStrategy._traded_markets
    bot_window_start_prices, \* BTCBotStrategy._window_start_prices
    _price_history,          \* BTCBotStrategy._price_history
    bot_clock,               \* datetime.now(), in minutes
    observed,                \* every price the ticks appended to the history
    bot_tick,                \* what the latest on_tick did
    bot_call,                \* the method that was called directly, with its arguments
    bot_ret                  \* what that call returned

botVars == <<bot_cfg, _traded_markets, bot_window_start_prices, _price_history,
             bot_clock, observed, bot_tick, bot_call, bot_ret>>

VARIABLES
    kelly_edge,         \* the Edge whose kelly_fraction is read
    kelly_ret           \* what the property returned

kellyVars == <<kelly_edge, kelly_ret>>

VARIABLES
    _price_cache,       \* CryptoClient._price_cache: symbol -> (price, timestamp)
    crypto_now,         \* time.time(), in seconds
    crypto_requests,    \* the number of requests CryptoClient issued
    crypto_ret          \* what the latest _get_price did and returned

cryptoVars == <<_price_cache, crypto_now, crypto_requests, crypto_ret>>

VARIABLES
    entry_call,         \* the arguments of a direct call of _calculate_entry_price
    entry_ret           \* what that call returned

entryVars == <<entry_call, entry_ret>>

VARIABLES
    dist_call,          \* the arguments of a call of from_normal
    dist_ret            \* the distribution from_normal returned

distVars == <<dist_call, dist_ret>>

VARIABLES
    w_market,           \* the buckets of the weather market of the city
    w_forecast,         \* the forecast of the city: high_temp and uncertainty
    w_traded,           \* WeatherBotStrategy._traded_markets
    w_ret               \* what the latest _process_city computed and attempted

weatherVars == <<w_market, w_forecast, w_traded, w_ret>>

lateVars == <<entryVars, distVars, weatherVars>>

miscVars == <<kellyVars, cryptoVars, lateVars>>

\* the weather spread selector, the BTC momentum bot, the Kelly fraction and
\* the crypto price client
auxVars == <<spreadVars, botVars, miscVars>>

vars == <<ledgerVars, runVars, clientVars, hedgedVars, auxVars>>

\* what each component leaves alone
notLedgerVars == <<runVars, clientVars, hedgedVars, auxVars>>
notRunVars == <<ledgerVars, clientVars, hedgedVars, auxVars>>
notClientVars == <<ledgerVars, runVars, hedgedVars, auxVars>>
notHedgedVars == <<callVars, runVars, clientVars, auxVars>>
notSpreadVars == <<ledgerVars, runVars, clientVars, hedgedVars, botVars, miscVars>>
notBotVars == <<runVars, clientVars, hedgedVars, spreadVars, miscVars>>
notKellyVars == <<ledgerVars, runVars, clientVars, hedgedVars, spreadVars, botVars,
                  cryptoVars, lateVars>>
notCryptoVars == <<ledgerVars, runVars, clientVars, hedgedVars, spreadVars, botVars,
                   kellyVars, lateVars>>
earlyVars == <<runVars, clientVars, hedgedVars, spreadVars, botVars, kellyVars,
               cryptoVars>>
notEntryVars == <<ledgerVars, earlyVars, distVars, weatherVars>>
notDistVars == <<ledgerVars, earlyVars, entryVars, weatherVars>>
notWeatherVars == <<earlyVars, entryVars, distVars>>

(***************************************************************************)
(* The values of calls that were not made.                                 *)
(***************************************************************************)
\* Bucket.temp_min of a tail bucket (None)
NoTemp == -1000
NoBucket == [ticker |-> "", temp_min |-> NoTemp, yes_bid |-> 0, yes_ask |-> 0]
\* forecast=None
NoForecast == [given |-> FALSE, probs |-> <<>>]
\* a SpreadSelection, or None (is_none)
NoSpread == [is_none |-> TRUE, buckets |-> <<>>, total_cost |-> 0]
NoSpreadCall == [fn |-> "none", min_edge |-> 0, peak |-> NoBucket]
NoSpreadReturn == [spread |-> NoSpread, edges |-> <<>>, bucket |-> NoBucket]

SpreadQuiet ==
    /\ market = <<>>
    /\ forecast = NoForecast
    /\ spread_call = NoSpreadCall
    /\ spread_ret = NoSpreadReturn

BotTickers == {"K1"}
\* the arguments of BTCBotStrategy(...) when it is not running
BotDefaults ==
    [min_confidence |-> 0, max_minutes_before_close |-> 0,
     min_minutes_before_close |-> 0, min_price_change_pct |-> 0,
     contracts_per_bet |-> 0, min_contracts |-> 0, max_price |-> 0,
     scale_by_confidence |-> TRUE]
NoBotTick == [ticker |-> "", did |-> "none", is_up |-> FALSE,
              has_momentum |-> FALSE, change |-> 0, confidence |-> 0,
              appended |-> FALSE]
NoBotCall == [fn |-> "none", a |-> 0, b |-> 0, contracts |-> 0, confidence |-> 0,
              flag |-> FALSE]
NoBotReturn == [returned |-> "none", trade |-> "none", number |-> 0]

BotQuiet ==
    /\ bot_cfg = BotDefaults
    /\ _traded_markets = {}
    /\ bot_window_start_prices = [t \in BotTickers |-> 0]
    /\ _price_history = <<>>
    /\ bot_clock = 0
    /\ observed = <<>>
    /\ bot_tick = NoBotTick
    /\ bot_call = NoBotCall
    /\ bot_ret = NoBotReturn

\* no Edge was built and no kelly_fraction was read
NoEdge == [market_price |-> 0, model_prob |-> 0]
NoKelly == [returned |-> FALSE, num |-> 0, den |-> 1, residue |-> FALSE]

KellyQuiet ==
    /\ kelly_edge = NoEdge
    /\ kelly_ret = NoKelly

\* the coins whose price is asked for
CryptoSymbols == {"bitcoin", "ethereum"}
NoCacheEntry == [cached |-> FALSE, price |-> 0, time |-> 0]
NoCryptoReturn == [symbol |-> "", returned |-> "none", price |-> 0,
                   outcome |-> "none"]

CryptoQuiet ==
    /\ _price_cache = [c \in CryptoSymbols |-> NoCacheEntry]
    /\ crypto_now = 0
    /\ crypto_requests = 0
    /\ crypto_ret = NoCryptoReturn

\* no entry price was asked for
NoEntryCall == [use_limit_orders |-> FALSE, is_up |-> FALSE, yes_bid |-> 0,
                yes_ask |-> 0]
NoEntryReturn == [returned |-> FALSE, price |-> 0]

EntryQuiet ==
    /\ entry_call = NoEntryCall
    /\ entry_ret = NoEntryReturn

\* no distribution was built
NoDistCall == [mean |-> 0, std |-> 0, buckets |-> <<>>]
NoDistribution == [returned |-> FALSE, probabilities |-> <<>>]

DistQuiet ==
    /\ dist_call = NoDistCall
    /\ dist_ret = NoDistribution

\* no city was processed
NoCityForecast == [high_temp |-> 0, uncertainty |-> 0]
NoCityReturn == [did |-> "none", edges |-> <<>>, tradeable |-> <<>>,
                 attempted |-> <<>>]

WeatherQuiet ==
    /\ w_market = <<>>
    /\ w_forecast = NoCityForecast
    /\ w_traded = {}
    /\ w_ret = NoCityReturn

LateQuiet == EntryQuiet /\ DistQuiet /\ WeatherQuiet

MiscQuiet == KellyQuiet /\ CryptoQuiet /\ LateQuiet

AuxQuiet == SpreadQuiet /\ BotQuiet /\ MiscQuiet

(***************************************************************************)
(* Strategy.place_order                                                    *)
(***************************************************************************)
\* cost = (contracts * price) / 100 dollars, here in cents
Cost(contracts, price) == contracts * price

RiskExceededIgnoringCost(risk, cost, ceiling) == risk > ceiling

RiskExceededAtCeiling(risk, cost, ceiling) == risk + cost >= ceiling

\* the risk check: self._daily_risk + cost > self.max_daily_risk
RiskExceeded(risk, cost, ceiling) == risk + cost > ceiling

NewOrder(ticker, contracts, price, side) ==
    [ticker |-> ticker, side |-> side, contracts |-> contracts, price |-> price]

LedgerAfterOrderDropsCost(risk, orders, order) ==
    [risk |-> risk, orders |-> Append(orders, order)]

\* self._daily_risk += cost; self._orders_placed.append(order)
LedgerAfterOrder(risk, orders, order) ==
    [risk |-> risk + Cost(order.contracts, order.price),
     orders |-> Append(orders, order)]

\* The whole of place_order on a ledger (risk, orders): what it returns
\* ("risk_rejected" and "dry_run" both return None, "placed" returns the
\* order, "raised" lets the collaborator's exception escape), whether the
\* collaborator was called, and the ledger afterwards.
place_order(risk, orders, ceiling, dry, ticker, contracts, price, side, collab) ==
    LET cost == Cost(contracts, price)
        order == NewOrder(ticker, contracts, price, side)
        same == [risk |-> risk, orders |-> orders]
    IN  IF RiskExceeded(risk, cost, ceiling)
          THEN [outcome |-> "risk_rejected", called |-> FALSE, ledger |-> same]
        ELSE IF dry
          THEN [outcome |-> "dry_run", called |-> FALSE, ledger |-> same]
        ELSE IF collab = "raise"
          THEN [outcome |-> "raised", called |-> TRUE, ledger |-> same]
        ELSE [outcome |-> "placed", called |-> TRUE,
              ledger |-> LedgerAfterOrder(risk, orders, order)]

\* The ledger after a place_order call whose result is r.
ApplyLedger(r) ==
    /\ _daily_risk' = r.ledger.risk
    /\ _orders_placed' = r.ledger.orders

\* A direct call of Strategy.place_order with arbitrary arguments; the call
\* and what it did are recorded in kalshi_calls, ncalls and last_call.
PlaceOrder ==
    /\ ncalls < MaxCalls
    /\ \E ticker \in LedgerTickers, contracts \in 0..MaxContracts,
          price \in LedgerPrices, side \in Sides, collab \in CollabOutcomes :
          LET r == place_order(_daily_risk, _orders_placed, max_daily_risk,
                               dry_run, ticker, contracts, price, side, collab)
          IN  /\ ApplyLedger(r)
              /\ kalshi_calls' = kalshi_calls + (IF r.called THEN 1 ELSE 0)
              /\ ncalls' = ncalls + 1
              /\ last_call' = [outcome |-> r.outcome, ticker |-> ticker,
                               contracts |-> contracts, price |-> price,
                               side |-> side, risk_before |-> _daily_risk]
    /\ UNCHANGED <<max_daily_risk, dry_run>>
    /\ UNCHANGED notLedgerVars

LedgerInit ==
    /\ max_daily_risk \in RiskCeilings
    /\ dry_run \in BOOLEAN
    /\ _daily_risk = 0
    /\ _orders_placed = <<>>
    /\ kalshi_calls = 0
    /\ ncalls = 0
    /\ last_call = NoCall


LedgerQuiet ==
    /\ max_daily_risk = 100
    /\ dry_run = TRUE
    /\ _daily_risk = 0
    /\ _orders_placed = <<>>
    /\ kalshi_calls = 0
    /\ ncalls = 0
    /\ last_call = NoCall

(***************************************************************************)
(* Strategy.run: setup, on_start, the tick loop, on_stop, cleanup.         *)
(* run_pc walks through the method; a hook's outcome is "ok" (it returns), *)
(* "exception" (it raises an Exception), "interrupt" (KeyboardInterrupt)   *)
(* or, for on_tick, "system_exit" (a BaseException that is neither).       *)
(***************************************************************************)
NoEnd == -1
\* duration_minutes: None (NoEnd) or a number of minutes
Durations == {NoEnd} \cup (0..MaxDuration)
StartupOutcomes == {"ok", "exception", "interrupt"}
TickOutcomes == {"ok", "exception", "interrupt", "system_exit"}
StopHookOutcomes == {"ok", "exception"}

\* what leaves the try block: KeyboardInterrupt is caught (line 98), any
\* other exception stays pending through the finally block
PendingAfter(outcome) == IF outcome = "interrupt" THEN "none" ELSE outcome

ExitReasonOf(outcome) == IF outcome = "interrupt" THEN "interrupt" ELSE "error"

\* if duration_minutes: end_time = now + duration_minutes * 60
EndTimeFor(duration, now) ==
    IF duration # NoEnd /\ duration # 0 THEN now + duration ELSE NoEnd

\* if end_time and time.time() >= end_time
DurationReached(e, now) == e # NoEnd /\ e # 0 /\ now >= e

AfterTickUncaught(outcome) == IF outcome = "ok" THEN "end_check" ELSE "on_stop"

\* try: self.on_tick() except Exception: log -- where run continues after
\* on_tick ended with outcome
AfterTick(outcome) ==
    IF outcome \in {"ok", "exception"} THEN "end_check" ELSE "on_stop"

AfterStartupNoFinally(outcome, next) == IF outcome = "ok" THEN next ELSE "done"

\* where run continues after setup or on_start ended with outcome: the next
\* statement, or the finally block
AfterStartup(outcome, next) == IF outcome = "ok" THEN next ELSE "on_stop"

RunInit ==
    /\ run_pc = "idle"
    /\ _start_time = -1
    /\ stop_pc = "none"
    /\ duration_minutes = NoEnd
    /\ startup_failed = FALSE
    /\ _running = FALSE
    /\ end_time = NoEnd
    /\ run_clock = 0
    /\ calls = <<>>
    /\ pending = "none"
    /\ exit_reason = "none"
    /\ tick_failed = FALSE
    /\ nticks = 0
    /\ runs = 0

\* run(duration_minutes) is called: lines 73-74, and the arguments kept
RunStart ==
    /\ run_pc \in {"idle", "done"}
    /\ runs < MaxRuns
    /\ runs' = runs + 1
    /\ _running' = TRUE
    /\ duration_minutes' \in Durations
    /\ end_time' = NoEnd
    /\ startup_failed' = FALSE
    /\ run_pc' = "setup"
    /\ calls' = <<>>
    /\ pending' = "none"
    /\ exit_reason' = "none"
    /\ tick_failed' = FALSE
    /\ nticks' = 0
    /\ _start_time' = run_clock
    /\ stop_pc' = "none"
    /\ UNCHANGED run_clock
    /\ UNCHANGED notRunVars

\* self.setup()
Setup ==
    /\ run_pc = "setup"
    /\ calls' = Append(calls, "setup")
    /\ \E outcome \in StartupOutcomes :
          /\ run_pc' = AfterStartup(outcome, "on_start")
          /\ pending' = PendingAfter(outcome)
          /\ exit_reason' = IF outcome = "ok" THEN exit_reason
                            ELSE ExitReasonOf(outcome)
          /\ startup_failed' = (outcome # "ok")
    /\ UNCHANGED <<duration_minutes, _running, end_time, run_clock,
                   tick_failed, nticks, runs, _start_time, stop_pc>>
    /\ UNCHANGED notRunVars

\* self.on_start(), then lines 80-82
OnStart ==
    /\ run_pc = "on_start"
    /\ calls' = Append(calls, "on_start")
    /\ \E outcome \in StartupOutcomes :
          /\ run_pc' = AfterStartup(outcome, "loop_head")
          /\ pending' = PendingAfter(outcome)
          /\ exit_reason' = IF outcome = "ok" THEN exit_reason
                            ELSE ExitReasonOf(outcome)
          /\ startup_failed' = (outcome # "ok")
          /\ end_time' = IF outcome = "ok"
                         THEN EndTimeFor(duration_minutes, run_clock)
                         ELSE end_time
    /\ UNCHANGED <<duration_minutes, _running, run_clock, tick_failed, nticks,
                   runs, _start_time, stop_pc>>
    /\ UNCHANGED notRunVars

\* while self._running: ... self.on_tick() is entered
LoopHead ==
    /\ run_pc = "loop_head"
    /\ IF _running
       THEN /\ nticks < MaxTicks
            /\ run_pc' = "on_tick"
            /\ calls' = Append(calls, "on_tick")
            /\ nticks' = nticks + 1
            /\ UNCHANGED exit_reason
       ELSE /\ run_pc' = "on_stop"
            /\ exit_reason' = "stop"
            /\ UNCHANGED <<calls, nticks>>
    /\ UNCHANGED <<duration_minutes, startup_failed, _running, end_time,
                   run_clock, pending, tick_failed, runs, _start_time, stop_pc>>
    /\ UNCHANGED notRunVars

\* on_tick ends, having taken dt minutes
OnTickEnds ==
    /\ run_pc = "on_tick"
    /\ \E outcome \in TickOutcomes, dt \in 0..1 :
          /\ run_pc' = AfterTick(outcome)
          /\ tick_failed' = (outcome = "exception")
          /\ run_clock' = run_clock + dt
          /\ IF AfterTick(outcome) = "on_stop"
             THEN /\ pending' = PendingAfter(outcome)
                  /\ exit_reason' = ExitReasonOf(outcome)
             ELSE UNCHANGED <<pending, exit_reason>>
    /\ UNCHANGED <<_running, end_time, calls, nticks, runs>>
    /\ UNCHANGED <<duration_minutes, startup_failed, _start_time, stop_pc>>
    /\ UNCHANGED notRunVars

\* lines 90-93: the duration check after the tick
EndCheck ==
    /\ run_pc = "end_check"
    /\ IF DurationReached(end_time, run_clock)
       THEN run_pc' = "on_stop" /\ exit_reason' = "duration"
       ELSE run_pc' = "sleep" /\ UNCHANGED exit_reason
    /\ UNCHANGED <<_running, end_time, run_clock, calls, pending, tick_failed,
                   nticks, runs>>
    /\ UNCHANGED <<duration_minutes, startup_failed, _start_time, stop_pc>>
    /\ UNCHANGED notRunVars

\* time.sleep(self.check_interval): one minute, unless interrupted
Sleep ==
    /\ run_pc = "sleep"
    /\ \/ /\ run_pc' = "loop_head"
          /\ run_clock' = run_clock + 1
          /\ UNCHANGED <<pending, exit_reason>>
       \/ /\ run_pc' = "on_stop"
          /\ pending' = "none"
          /\ exit_reason' = "interrupt"
          /\ UNCHANGED run_clock
    /\ UNCHANGED <<_running, end_time, calls, tick_failed, nticks, runs>>
    /\ UNCHANGED <<duration_minutes, startup_failed, _start_time, stop_pc>>
    /\ UNCHANGED notRunVars

\* finally: self._running = False; self.on_stop()
OnStop ==
    /\ run_pc = "on_stop"
    /\ _running' = FALSE
    /\ calls' = Append(calls, "on_stop")
    /\ \E outcome \in StopHookOutcomes :
          IF outcome = "ok"
          THEN run_pc' = "cleanup" /\ UNCHANGED pending
          ELSE run_pc' = "done" /\ pending' = "on_stop_raised"
    /\ UNCHANGED <<end_time, run_clock, exit_reason, tick_failed, nticks, runs>>
    /\ UNCHANGED <<duration_minutes, startup_failed, _start_time, stop_pc>>
    /\ UNCHANGED notRunVars

\* self.cleanup(), after which run returns or re-raises what is pending
Cleanup ==
    /\ run_pc = "cleanup"
    /\ calls' = Append(calls, "cleanup")
    /\ run_pc' = "done"
    /\ \E outcome \in StopHookOutcomes :
          pending' = IF outcome = "ok" THEN pending ELSE "cleanup_raised"
    /\ UNCHANGED <<_running, end_time, run_clock, exit_reason, tick_failed,
                   nticks, runs>>
    /\ UNCHANGED <<duration_minutes, startup_failed, _start_time, stop_pc>>
    /\ UNCHANGED notRunVars

\* stop(), from a hook, a signal handler or another thread while run executes
Stop ==
    /\ run_pc \notin {"idle", "done"}
    /\ _running
    /\ _running' = FALSE
    /\ stop_pc' = run_pc
    /\ UNCHANGED <<run_pc, end_time, run_clock, calls, pending, exit_reason,
                   tick_failed, nticks, runs>>
    /\ UNCHANGED <<duration_minutes, startup_failed, _start_time>>
    /\ UNCHANGED notRunVars

RunNext ==
    \/ RunStart \/ Setup \/ OnStart \/ LoopHead \/ OnTickEnds \/ EndCheck
    \/ Sleep \/ OnStop \/ Cleanup \/ Stop


(***************************************************************************)
(* BaseClient._request and _check_rate_limit.  Time is counted in units of *)
(* 1/Second seconds.                                                       *)
(***************************************************************************)
Second == 2
\* what one attempt meets: an HTTP response with that status, a network
\* error or timeout raised by httpx, or any other exception
AttemptOutcomes == {"200", "404", "500", "429", "network", "timeout", "other"}

RECURSIVE Pow(_, _)
Pow(b, n) == IF n = 0 THEN 1 ELSE b * Pow(b, n - 1)

\* self._request_times = [t for t in self._request_times if now - t < 1.0]
RecentTimes(times, now) == SelectSeq(times, LAMBDA t : now - t < Second)

RateLimitSleepAboveLimit(times, now, limit) ==
    IF Len(times) > limit /\ Second - (now - times[1]) > 0
    THEN Second - (now - times[1])
    ELSE 0

\* sleep_time = 1.0 - (now - self._request_times[0]), slept if the window is
\* full and sleep_time > 0
RateLimitSleep(times, now, limit) ==
    IF Len(times) >= limit /\ Second - (now - times[1]) > 0
    THEN Second - (now - times[1])
    ELSE 0

\* delay = retry_delay * retry_backoff ** attempt, before the jitter, with
\* the default retry_delay = 1.0 and retry_backoff = 2.0
BackoffBase(n) == Second * Pow(2, n)

\* delay += random.uniform(0, 1): the two ends of the interval
Jitters == {0, Second}

\* the except clauses of _request: the typed error an outcome leaves in
\* last_exception
TypedError(o) ==
    CASE o = "429" -> "RateLimitError"
      [] o \in {"network", "timeout"} -> "NetworkError"
      [] OTHER -> "none"

TransientOrAnyFailure(o) == o # "200"

\* the outcomes that reach the retry code below the try statement
Transient(o) == o \in {"429", "network", "timeout"}

ShouldRetryOnceMore(n, maxr) == n <= maxr

\* if attempt < self.max_retries: sleep and go round again, else raise
ShouldRetry(n, maxr) == n < maxr

ClientInit ==
    /\ max_retries \in 0..MaxRetries
    /\ rate_limit \in 1..MaxRate
    /\ _request_times = <<>>
    /\ clk = 0
    /\ req_pc = "idle"
    /\ attempt = 0
    /\ last_exception = "none"
    /\ outcomes = <<>>
    /\ result = "none"
    /\ backoffs = 0
    /\ nrequests = 0
    /\ idle = 0

ClientQuiet ==
    /\ max_retries = 0
    /\ rate_limit = 1
    /\ _request_times = <<>>
    /\ clk = 0
    /\ req_pc = "idle"
    /\ attempt = 0
    /\ last_exception = "none"
    /\ outcomes = <<>>
    /\ result = "none"
    /\ backoffs = 0
    /\ nrequests = 0
    /\ idle = 0

\* _request is called: lines 85-86 and the first round of the for loop
StartRequest ==
    /\ req_pc \in {"idle", "returned", "raised"}
    /\ nrequests < MaxRequests
    /\ nrequests' = nrequests + 1
    /\ req_pc' = "attempt"
    /\ attempt' = 0
    /\ last_exception' = "none"
    /\ outcomes' = <<>>
    /\ result' = "none"
    /\ backoffs' = 0
    /\ UNCHANGED <<max_retries, rate_limit, _request_times, clk, idle>>
    /\ UNCHANGED notClientVars

\* One round of the for loop up to the retry decision: _check_rate_limit
\* (with its sleep), the HTTP call (which takes dt), and the except clauses.
Attempt ==
    /\ req_pc = "attempt"
    /\ LET kept == RecentTimes(_request_times, clk)
           recorded == clk + RateLimitSleep(kept, clk, rate_limit)
       IN  /\ _request_times' = Append(kept, recorded)
           /\ \E dt \in 0..1 : clk' = recorded + dt
    /\ \E o \in AttemptOutcomes :
          /\ outcomes' = Append(outcomes, o)
          /\ IF Transient(o)
             THEN /\ last_exception' = TypedError(o)
                  /\ IF ShouldRetry(attempt, max_retries)
                     THEN req_pc' = "backoff" /\ UNCHANGED result
                     ELSE req_pc' = "raised" /\ result' = TypedError(o)
             ELSE /\ UNCHANGED last_exception
                  /\ IF o = "other"
                     THEN req_pc' = "raised" /\ result' = "other"
                     ELSE req_pc' = "returned" /\ result' = o
    /\ UNCHANGED <<max_retries, rate_limit, attempt, backoffs, nrequests, idle>>
    /\ UNCHANGED notClientVars

\* time.sleep(delay) with its jitter, then the next round of the for loop,
\* or line 124 when the loop is exhausted
Backoff ==
    /\ req_pc = "backoff"
    /\ \E jitter \in Jitters : clk' = clk + BackoffBase(attempt) + jitter
    /\ backoffs' = backoffs + 1
    /\ attempt' = attempt + 1
    /\ IF attempt + 1 <= max_retries
       THEN req_pc' = "attempt" /\ UNCHANGED result
       ELSE req_pc' = "raised" /\ result' = last_exception
    /\ UNCHANGED <<max_retries, rate_limit, _request_times, last_exception,
                   outcomes, nrequests, idle>>
    /\ UNCHANGED notClientVars

\* time passes between two requests
TimePasses ==
    /\ req_pc \in {"idle", "returned", "raised"}
    /\ idle < MaxIdle
    /\ idle' = idle + 1
    /\ clk' = clk + 1
    /\ UNCHANGED <<max_retries, rate_limit, _request_times, req_pc, attempt,
                   last_exception, outcomes, result, backoffs, nrequests>>
    /\ UNCHANGED notClientVars

ClientNext == StartRequest \/ Attempt \/ Backoff \/ TimePasses


(***************************************************************************)
(* BTCHedgedStrategy.  Reference (BTC) prices are whole dollars, 0 standing *)
(* for a failed fetch (get_btc_price returns 0.0).  A percent change        *)
(* (p - q) / q * 100 is never rounded: it is kept as the pair               *)
(* [diff |-> p - q, base |-> q] and compared by cross-multiplication, with  *)
(* thresholds given in hundredths of a percent.                             *)
(***************************************************************************)
WindowLength == 5
FirstClose == 5
\* close_time of each window's market: the windows follow one another
CloseTime(t) == IF t = "W1" THEN FirstClose ELSE FirstClose + WindowLength

\* what crypto.get_btc_price() may return
PriceSet == {0, 9975, 10000, 10025}
\* what crypto.get_price_at_time() returns for a window start, when it answers
StartPrice == 10000
\* yes_bid / yes_ask as the market feed gives them (0 for an absent quote)
Quotes == {<<48, 50>>, <<0, 50>>, <<45, 0>>}

\* constructor arguments: the default phase layout with the windows scaled
\* to the model's clock, and a layout whose entry window ends before the
\* hedge window starts
CfgContiguous ==
    [base_contracts |-> 1, hedge_contracts |-> 1, max_price |-> 55,
     entry_window_start |-> 4, entry_window_end |-> 2,
     hedge_window_start |-> 2, hedge_window_end |-> 1,
     min_entry_change |-> 5, hedge_trigger_pct |-> 25, min_edge_pct |-> 5,
     use_limit_orders |-> TRUE]
CfgGap ==
    [base_contracts |-> 1, hedge_contracts |-> 2, max_price |-> 52,
     entry_window_start |-> 4, entry_window_end |-> 3,
     hedge_window_start |-> 2, hedge_window_end |-> 1,
     min_entry_change |-> 5, hedge_trigger_pct |-> 25, min_edge_pct |-> 5,
     use_limit_orders |-> FALSE]
HedgedConfigs == {CfgContiguous, CfgGap}

NoChange == [diff |-> 0, base |-> 1]
NoPosition ==
    [entry_side |-> "none", entry_price |-> 0, entry_contracts |-> 0,
     entry_btc_price |-> 0, entry_change_pct |-> NoChange, hedged |-> FALSE,
     hedge_price |-> 0, hedge_contracts |-> 0, settled |-> FALSE,
     won |-> FALSE, pnl_cents |-> 0]

\* WindowPosition(ticker, entry_side, entry_price, entry_contracts,
\*                entry_btc_price, entry_change_pct)
WindowPosition(side, price, contracts, btc_price, change_pct) ==
    [entry_side |-> side, entry_price |-> price, entry_contracts |-> contracts,
     entry_btc_price |-> btc_price, entry_change_pct |-> change_pct,
     hedged |-> FALSE, hedge_price |-> 0, hedge_contracts |-> 0,
     settled |-> FALSE, won |-> FALSE, pnl_cents |-> 0]

NoQuote == <<0, 0>>
NoTick == [ticker |-> "", phase |-> "none", did |-> "none", cur |-> 0,
           quote |-> NoQuote]

Abs(x) == IF x < 0 THEN -x ELSE x
Min(a, b) == IF a <= b THEN a ELSE b
Max(a, b) == IF a >= b THEN a ELSE b

\* minutes_left = (end_time - now).total_seconds() / 60
MinutesLeft(t, now) == CloseTime(t) - now

\* price_change_pct = ((current_price - start_price) / start_price) * 100
PctChange(current, start) == [diff |-> current - start, base |-> start]

\* is_up = price_change_pct > 0
IsUp(pct) == pct.diff > 0

\* abs(price_change_pct) < self.min_entry_change
MoveTooSmall(pct, min_change) == Abs(pct.diff) * 10000 < min_change * pct.base

PhaseWithoutHold(c, m) ==
    IF m > c.entry_window_start THEN "pre"
    ELSE IF c.entry_window_end < m /\ m <= c.entry_window_start THEN "entry"
    ELSE IF 0 < m /\ m <= c.hedge_window_start THEN "monitor"
    ELSE "closed"

\* the phase tests of _process_window, in the order of its if / elif chain
Phase(c, m) ==
    IF m > c.entry_window_start THEN "pre"
    ELSE IF c.entry_window_end < m /\ m <= c.entry_window_start THEN "entry"
    ELSE IF c.hedge_window_end < m /\ m <= c.hedge_window_start THEN "monitor"
    ELSE IF m <= c.hedge_window_end /\ m > 0 THEN "hold"
    ELSE "closed"

\* _calculate_entry_price without the tight-spread test and without the
\* min / max against the touch price
EntryPriceUnclamped(c, is_up, yes_bid, yes_ask) ==
    IF ~c.use_limit_orders
    THEN (IF is_up THEN yes_ask ELSE yes_bid)
    ELSE LET mid_price == (yes_bid + yes_ask) \div 2
         IN  IF is_up THEN mid_price + 1 ELSE mid_price - 1

_calculate_entry_price(c, is_up, yes_bid, yes_ask) ==
    IF ~c.use_limit_orders
    THEN (IF is_up THEN yes_ask ELSE yes_bid)
    ELSE LET mid_price == (yes_bid + yes_ask) \div 2
             spread == yes_ask - yes_bid
         IN  IF is_up
             THEN (IF spread <= 2 THEN yes_ask ELSE Min(mid_price + 1, yes_ask))
             ELSE (IF spread <= 2 THEN yes_bid ELSE Max(mid_price - 1, yes_bid))

\* estimated_win_pct = min(50 + momentum_strength * 60, 70), times pct.base
EstimatedWinTimesBase(pct) ==
    Min(50 * pct.base + 6000 * Abs(pct.diff), 70 * pct.base)

\* has_edge of _has_edge: edge_pct >= self.min_edge_pct
_has_edge(c, is_up, entry_price, pct) ==
    LET est == EstimatedWinTimesBase(pct)
        fair == IF is_up THEN est ELSE 100 * pct.base - est
    IN  IF is_up
        THEN (fair - entry_price * pct.base) * 100
                 >= c.min_edge_pct * entry_price * pct.base
        ELSE (entry_price * pct.base - fair) * 100 >= c.min_edge_pct * fair

EntryGateAnyPrice(c, is_up, pct, entry_price) ==
    IF MoveTooSmall(pct, c.min_entry_change) THEN "small"
    ELSE IF ~_has_edge(c, is_up, entry_price, pct) THEN "no_edge"
    ELSE "go"

\* the gates of _try_entry before the order: "small", "no_edge", "price"
\* name the early return taken, "go" that _enter_long / _enter_short runs
EntryGate(c, is_up, pct, entry_price) ==
    IF MoveTooSmall(pct, c.min_entry_change) THEN "small"
    ELSE IF ~_has_edge(c, is_up, entry_price, pct) THEN "no_edge"
    ELSE IF is_up /\ entry_price > c.max_price THEN "price"
    ELSE IF ~is_up /\ 100 - entry_price > c.max_price THEN "price"
    ELSE "go"

ShouldHedgeFromStart(pos, current, trigger) ==
    IF pos.entry_side = "long"
    THEN (current - StartPrice) * 10000 < -(trigger * StartPrice)
    ELSE (current - StartPrice) * 10000 > trigger * StartPrice

ShouldHedgeAtThreshold(pos, current, trigger) ==
    LET move == PctChange(current, pos.entry_btc_price)
    IN  IF pos.entry_side = "long"
        THEN move.diff * 10000 <= -(trigger * move.base)
        ELSE move.diff * 10000 >= trigger * move.base

\* should_hedge of _check_hedge, for entry_btc_price > 0
ShouldHedge(pos, current, trigger) ==
    LET move == PctChange(current, pos.entry_btc_price)
    IN  IF pos.entry_side = "long"
        THEN move.diff * 10000 < -(trigger * move.base)
        ELSE move.diff * 10000 > trigger * move.base

HedgedAtEntryPrice(pos, price, contracts) ==
    [pos EXCEPT !.hedged = TRUE, !.hedge_price = pos.entry_price,
                !.hedge_contracts = contracts]

\* the position after _execute_hedge's order was placed at price
Hedged(pos, price, contracts) ==
    [pos EXCEPT !.hedged = TRUE, !.hedge_price = price,
                !.hedge_contracts = contracts]

SettlementPnlIgnoringHedge(pos, btc_went_up) ==
    IF pos.entry_side = "long"
    THEN (IF btc_went_up THEN 100 - pos.entry_price ELSE -pos.entry_price)
    ELSE (IF ~btc_went_up THEN pos.entry_price ELSE -(100 - pos.entry_price))

SettlementPnlShortAsLong(pos, btc_went_up) ==
    IF pos.hedged
    THEN (IF pos.entry_side = "long" THEN pos.hedge_price - pos.entry_price
          ELSE pos.entry_price - pos.hedge_price)
    ELSE IF btc_went_up THEN 100 - pos.entry_price
    ELSE -pos.entry_price

\* position.pnl_cents as _record_settlement sets it
SettlementPnl(pos, btc_went_up) ==
    IF pos.entry_side = "long"
    THEN (IF pos.hedged THEN -(pos.entry_price - pos.hedge_price)
          ELSE IF btc_went_up THEN 100 - pos.entry_price
          ELSE -pos.entry_price)
    ELSE (IF pos.hedged THEN -(pos.hedge_price - pos.entry_price)
          ELSE IF ~btc_went_up THEN pos.entry_price
          ELSE -(100 - pos.entry_price))

SettledLeftOpen(pos, btc_went_up) ==
    [pos EXCEPT !.won = (IF pos.entry_side = "long" THEN btc_went_up
                         ELSE ~btc_went_up),
                !.pnl_cents = SettlementPnl(pos, btc_went_up)]

\* the position after _record_settlement
Settled(pos, btc_went_up) ==
    [pos EXCEPT !.settled = TRUE,
                !.won = (IF pos.entry_side = "long" THEN btc_went_up
                         ELSE ~btc_went_up),
                !.pnl_cents = SettlementPnl(pos, btc_went_up)]

\* yes_bid = market.get("yes_bid") or 0; yes_ask = market.get("yes_ask") or 100
YesBid(q) == q[1]
YesAsk(q) == IF q[2] = 0 THEN 100 ELSE q[2]

\* what get_btc_price() answers when the historical lookup has failed: 0 is
\* its own failure value
FallbackPrices == {0, StartPrice}

MayEnterAlways(t) == TRUE

\* ticker not in self._traded_windows
MayEnter(t) == t \notin _traded_windows

HasPosition(t) == _positions[t].entry_side # "none"

\* max_daily_risk of the hedged strategy's runs, in cents
HedgedCeiling == 150

HedgedInit ==
    /\ cfg \in HedgedConfigs
    /\ hclock = 0
    /\ _positions = [t \in Tickers |-> NoPosition]
    /\ _window_start_prices = [t \in Tickers |-> 0]
    /\ _traded_windows = {}
    /\ _windows_traded = 0
    /\ _windows_hedged = 0
    /\ _windows_won = 0
    /\ _total_pnl_cents = 0
    /\ last_tick = NoTick

HedgedQuiet ==
    /\ cfg = CfgContiguous
    /\ hclock = 0
    /\ _positions = [t \in Tickers |-> NoPosition]
    /\ _window_start_prices = [t \in Tickers |-> 0]
    /\ _traded_windows = {}
    /\ _windows_traded = 0
    /\ _windows_hedged = 0
    /\ _windows_won = 0
    /\ _total_pnl_cents = 0
    /\ last_tick = NoTick

\* _get_window_start_price: the cached price, or the historical lookup
\* (cached when it answers), or else the current price (not cached); each
\* possible result with the cache it leaves
StartLookups(t) ==
    IF _window_start_prices[t] # 0
    THEN {[start |-> _window_start_prices[t], starts |-> _window_start_prices]}
    ELSE {[start |-> StartPrice,
           starts |-> [_window_start_prices EXCEPT ![t] = StartPrice]]}
         \cup {[start |-> p, starts |-> _window_start_prices] :
                   p \in FallbackPrices}

\* everything one on_tick leaves behind
TickEffect(positions, starts, traded, wt, wh, ww, pnl, ledger, tick) ==
    /\ _positions' = positions
    /\ _window_start_prices' = starts
    /\ _traded_windows' = traded
    /\ _windows_traded' = wt
    /\ _windows_hedged' = wh
    /\ _windows_won' = ww
    /\ _total_pnl_cents' = pnl
    /\ _daily_risk' = ledger.risk
    /\ _orders_placed' = ledger.orders
    /\ last_tick' = tick

SameLedger == [risk |-> _daily_risk, orders |-> _orders_placed]

\* a tick that changes nothing but, possibly, the start-price cache
QuietTick(starts, tick) ==
    TickEffect(_positions, starts, _traded_windows, _windows_traded,
               _windows_hedged, _windows_won, _total_pnl_cents, SameLedger,
               tick)

TickRecord(t, phase, did, cur) ==
    [ticker |-> t, phase |-> phase, did |-> did, cur |-> cur, quote |-> NoQuote]

\* the record of a tick that ran _execute_hedge with the quote q
HedgeRecord(t, phase, did, cur, q) ==
    [TickRecord(t, phase, did, cur) EXCEPT !.quote = q]

RefusalOf(outcome) == IF outcome = "raised" THEN "raised" ELSE "refused"

\* _try_entry with _enter_long / _enter_short
TryEntry(t, starts, pct, q, phase) ==
    LET is_up == IsUp(pct)
        entry_price == _calculate_entry_price(cfg, is_up, YesBid(q), YesAsk(q))
        gate == EntryGate(cfg, is_up, pct, entry_price)
    IN  IF gate # "go"
        THEN QuietTick(starts, TickRecord(t, phase, "gated", 0))
        ELSE \E collab \in CollabOutcomes :
               LET r == place_order(_daily_risk, _orders_placed, max_daily_risk,
                                    dry_run, t, cfg.base_contracts, entry_price,
                                    IF is_up THEN "buy" ELSE "sell", collab)
               IN  IF r.outcome = "placed"
                   THEN \E btc_price \in PriceSet :
                          TickEffect(
                            [_positions EXCEPT ![t] =
                               WindowPosition(IF is_up THEN "long" ELSE "short",
                                              entry_price, cfg.base_contracts,
                                              btc_price, pct)],
                            starts, _traded_windows \cup {t},
                            _windows_traded + 1, _windows_hedged, _windows_won,
                            _total_pnl_cents, r.ledger,
                            TickRecord(t, phase, "entered", 0))
                   ELSE QuietTick(starts,
                          TickRecord(t, phase, "entry_" \o RefusalOf(r.outcome), 0))

\* _execute_hedge
ExecuteHedge(t, starts, q, phase, cur) ==
    LET pos == _positions[t]
        long == pos.entry_side = "long"
        price == IF long THEN YesBid(q) ELSE YesAsk(q)
    IN  IF (long /\ ~(YesBid(q) > 0)) \/ (~long /\ ~(YesAsk(q) <= 99))
        THEN QuietTick(starts, HedgeRecord(t, phase, "hedge_blocked", cur, q))
        ELSE \E collab \in CollabOutcomes :
               LET r == place_order(_daily_risk, _orders_placed, max_daily_risk,
                                    dry_run, t, cfg.hedge_contracts, price,
                                    IF long THEN "sell" ELSE "buy", collab)
               IN  IF r.outcome = "placed"
                   THEN TickEffect(
                          [_positions EXCEPT ![t] =
                             Hedged(pos, price, cfg.hedge_contracts)],
                          starts, _traded_windows, _windows_traded,
                          _windows_hedged + 1, _windows_won, _total_pnl_cents,
                          r.ledger, HedgeRecord(t, phase, "hedged", cur, q))
                   ELSE QuietTick(starts,
                          HedgeRecord(t, phase, "hedge_" \o RefusalOf(r.outcome),
                                      cur, q))

\* _check_hedge: current_btc is fetched anew; a zero entry_btc_price makes
\* the division raise, which on_tick catches
CheckHedge(t, starts, q, phase) ==
    \E current_btc \in PriceSet :
       IF _positions[t].entry_btc_price = 0
       THEN QuietTick(starts, TickRecord(t, phase, "error", current_btc))
       ELSE IF ShouldHedge(_positions[t], current_btc, cfg.hedge_trigger_pct)
       THEN ExecuteHedge(t, starts, q, phase, current_btc)
       ELSE QuietTick(starts, TickRecord(t, phase, "checked", current_btc))

\* _record_settlement, called for an unsettled position
RecordSettlement(t, starts, btc_went_up, phase) ==
    LET pos == Settled(_positions[t], btc_went_up)
    IN  TickEffect([_positions EXCEPT ![t] = pos], starts, _traded_windows,
                   _windows_traded, _windows_hedged,
                   _windows_won + (IF pos.won THEN 1 ELSE 0),
                   _total_pnl_cents + pos.pnl_cents * pos.entry_contracts,
                   SameLedger,
                   TickRecord(t, phase,
                              IF btc_went_up THEN "settled_up"
                              ELSE "settled_down", 0))

\* _process_window once the market and its window are known
ProcessWindow(t, lk, current_price) ==
    LET phase == Phase(cfg, MinutesLeft(t, hclock))
        pct == PctChange(current_price, lk.start)
    IN  IF lk.start <= 0 \/ current_price <= 0
        THEN QuietTick(lk.starts, TickRecord(t, "none", "no_price", 0))
        ELSE IF phase = "entry"
        THEN IF MayEnter(t)
             THEN \E q \in Quotes : TryEntry(t, lk.starts, pct, q, phase)
             ELSE QuietTick(lk.starts, TickRecord(t, phase, "none", 0))
        ELSE IF phase = "monitor"
        THEN IF HasPosition(t) /\ ~_positions[t].hedged
             THEN \E q \in Quotes : CheckHedge(t, lk.starts, q, phase)
             ELSE IF MayEnter(t)
             THEN \E q \in Quotes : TryEntry(t, lk.starts, pct, q, phase)
             ELSE QuietTick(lk.starts, TickRecord(t, phase, "none", 0))
        ELSE IF phase = "closed"
        THEN IF HasPosition(t) /\ ~_positions[t].settled
             THEN RecordSettlement(t, lk.starts, IsUp(pct), phase)
             ELSE QuietTick(lk.starts, TickRecord(t, phase, "none", 0))
        ELSE QuietTick(lk.starts, TickRecord(t, phase, "none", 0))

\* on_tick: _process_window inside try / except Exception
OnTick ==
    /\ \/ QuietTick(_window_start_prices, TickRecord("", "none", "no_market", 0))
       \/ \E t \in Tickers :
             QuietTick(_window_start_prices, TickRecord(t, "none", "unparsed", 0))
       \/ \E t \in Tickers, current_price \in PriceSet :
             \E lk \in StartLookups(t) : ProcessWindow(t, lk, current_price)
    /\ UNCHANGED <<cfg, hclock, max_daily_risk, dry_run>>
    /\ UNCHANGED notHedgedVars

\* a minute goes by between two ticks
MinutePasses ==
    /\ hclock < MaxClock
    /\ hclock' = hclock + 1
    /\ UNCHANGED <<cfg, _positions, _window_start_prices, _traded_windows,
                   _windows_traded, _windows_hedged, _windows_won,
                   _total_pnl_cents, last_tick>>
    /\ UNCHANGED <<ledgerVars, runVars, clientVars, auxVars>>

HedgedNext == OnTick \/ MinutePasses

InitHedged ==
    /\ HedgedInit
    /\ max_daily_risk = HedgedCeiling
    /\ dry_run \in BOOLEAN
    /\ _daily_risk = 0
    /\ _orders_placed = <<>>
    /\ kalshi_calls = 0
    /\ ncalls = 0
    /\ last_call = NoCall
    /\ RunInit
    /\ ClientQuiet
    /\ AuxQuiet

SpecHedged == InitHedged /\ [][HedgedNext]_vars

\* the run loop keeps calling on_tick and time keeps passing (up to the
\* bound on the clock)
SpecHedgedLive ==
    /\ InitHedged
    /\ [][HedgedNext]_vars
    /\ WF_vars(OnTick)
    /\ WF_vars(MinutePasses)

(***************************************************************************)
(* Specifications.                                                         *)
(***************************************************************************)
Init == LedgerInit /\ RunInit /\ ClientQuiet /\ HedgedQuiet /\ AuxQuiet

Next == PlaceOrder

Spec == Init /\ [][Next]_vars

InitClient == ClientInit /\ LedgerQuiet /\ RunInit /\ HedgedQuiet /\ AuxQuiet

SpecClient == InitClient /\ [][ClientNext]_vars

InitRun == RunInit /\ LedgerQuiet /\ ClientQuiet /\ HedgedQuiet /\ AuxQuiet

SpecRun == InitRun /\ [][RunNext]_vars

(***************************************************************************)
(* The spread selector (src/strategy/spread_selector.py).                  *)
(*                                                                         *)
(* Prices are whole cents.  A forecast enters the selector only through    *)
(* the probability it gives each bucket (ProbabilityDistribution), kept    *)
(* here in percent, so that edge = model_prob - price / 100 is the         *)
(* integer model_prob - price, in percentage points.                       *)
(***************************************************************************)
MIN_BUCKET_PRICE == 10
MAX_BUCKET_PRICE == 60
MAX_BUCKETS == 2
MAX_TOTAL_COST == 95
\* MIN_EDGE = 0.05, in percentage points
MIN_EDGE == 5
\* the limit written into SpreadSelection.is_valid
ValidCostLimit == 95

\* the longest market that is tried
MaxMarket == 3

SpreadTickers == <<"B1", "B2", "B3", "B4">>
\* yes_ask of the markets selected by edge (0: no ask quoted)
EdgeAsks == {0, 35, 60, 70}
EdgeBids == {10}
\* the forecast's probability of a bucket, in percent
ModelProbs == {1, 40, 75}
MinEdges == {MIN_EDGE, 20}
\* yes_bid of the markets selected without a forecast
LegacyBids == {5, 10, 35, 60, 70}
LegacyTemps == {NoTemp, 60, 62, 64, 66}

\* markets of n buckets for the edge-based selection: buckets in rising
\* temperature
EdgeMarkets(n) ==
    {[i \in 1..n |-> [ticker |-> SpreadTickers[i], temp_min |-> 58 + 2 * i,
                      yes_bid |-> b, yes_ask |-> a[i]]] :
        a \in [1..n -> EdgeAsks], b \in EdgeBids}

\* temperatures of n buckets, no two alike
DistinctTemps(n) ==
    {f \in [1..n -> LegacyTemps] : \A i, j \in 1..n : i # j => f[i] # f[j]}

\* markets of n buckets for the legacy selection: buckets in any order of
\* temperature
LegacyMarkets(n) ==
    {[i \in 1..n |-> [ticker |-> SpreadTickers[i], temp_min |-> t[i],
                      yes_bid |-> b[i], yes_ask |-> 0]] :
        b \in [1..n -> LegacyBids], t \in DistinctTemps(n)}

\* a bucket that belongs to no market
Stranger == [ticker |-> "NONEXISTENT", temp_min |-> 62, yes_bid |-> 35,
             yes_ask |-> 0]

\* price = bucket.yes_ask or bucket.yes_bid
PriceOf(bucket) == IF bucket.yes_ask # 0 THEN bucket.yes_ask ELSE bucket.yes_bid

\* one Edge of calculate_bucket_edges: model_prob - market_prob
EdgeOf(bucket, model_prob) ==
    [bucket_ticker |-> bucket.ticker,
     model_prob |-> model_prob,
     edge |-> model_prob - PriceOf(bucket),
     market_price |-> PriceOf(bucket)]

\* list.sort(key=edge, reverse=True): descending, equal edges keep their order
RECURSIVE InsertByEdge(_, _)
InsertByEdge(e, s) ==
    IF s = <<>> THEN <<e>>
    ELSE IF Head(s).edge >= e.edge THEN <<Head(s)>> \o InsertByEdge(e, Tail(s))
    ELSE <<e>> \o s

RECURSIVE SortedByEdge(_)
SortedByEdge(s) ==
    IF s = <<>> THEN <<>>
    ELSE InsertByEdge(s[Len(s)], SortedByEdge(SubSeq(s, 1, Len(s) - 1)))

calculate_bucket_edges(mkt, fc) ==
    SortedByEdge([i \in 1..Len(mkt) |-> EdgeOf(mkt[i], fc.probs[i])])

\* ticker_to_bucket.get(ticker)
BucketOfTicker(mkt, ticker) ==
    mkt[CHOOSE i \in 1..Len(mkt) : mkt[i].ticker = ticker]

\* SpreadSelection.is_valid
is_valid(buckets, total_cost) == total_cost < ValidCostLimit /\ Len(buckets) > 0

SpreadOrNone(buckets, total_cost) ==
    IF buckets # <<>> /\ is_valid(buckets, total_cost)
    THEN [is_none |-> FALSE, buckets |-> buckets, total_cost |-> total_cost]
    ELSE NoSpread

\* one pass of the loop over the ranked edges
SelectStepNoPriceCeiling(acc, edge, bucket, min_edge) ==
    IF acc.stopped THEN acc
    ELSE IF edge.edge < min_edge THEN acc
    ELSE IF acc.total_cost + PriceOf(bucket) > MAX_TOTAL_COST THEN acc
    ELSE IF Len(acc.buckets) >= MAX_BUCKETS THEN [acc EXCEPT !.stopped = TRUE]
    ELSE [acc EXCEPT !.buckets = Append(@, bucket),
                     !.total_cost = @ + PriceOf(bucket)]

SelectStep(acc, edge, bucket, min_edge) ==
    IF acc.stopped THEN acc
    ELSE IF edge.edge < min_edge THEN acc
    ELSE IF PriceOf(bucket) > MAX_BUCKET_PRICE THEN acc
    ELSE IF acc.total_cost + PriceOf(bucket) > MAX_TOTAL_COST THEN acc
    ELSE IF Len(acc.buckets) >= MAX_BUCKETS THEN [acc EXCEPT !.stopped = TRUE]
    ELSE [acc EXCEPT !.buckets = Append(@, bucket),
                     !.total_cost = @ + PriceOf(bucket)]

RECURSIVE SelectLoop(_, _, _, _)
SelectLoop(acc, edges, mkt, min_edge) ==
    IF edges = <<>> THEN acc
    ELSE SelectLoop(SelectStep(acc, Head(edges),
                               BucketOfTicker(mkt, Head(edges).bucket_ticker),
                               min_edge),
                    Tail(edges), mkt, min_edge)

\* returns (spread or None, edges)
select_spread_with_edge(mkt, fc, min_edge) ==
    LET edges == calculate_bucket_edges(mkt, fc)
        acc == SelectLoop([buckets |-> <<>>, total_cost |-> 0, stopped |-> FALSE],
                          edges, mkt, min_edge)
    IN  [spread |-> SpreadOrNone(acc.buckets, acc.total_cost),
         edges |-> edges,
         bucket |-> NoBucket]

\* the buckets a list comprehension keeps, in order
RECURSIVE ValidBuckets(_)
ValidBuckets(s) ==
    IF s = <<>> THEN <<>>
    ELSE IF MIN_BUCKET_PRICE <= Head(s).yes_bid /\ Head(s).yes_bid <= MAX_BUCKET_PRICE
         THEN <<Head(s)>> \o ValidBuckets(Tail(s))
    ELSE ValidBuckets(Tail(s))

\* max(s, key=yes_bid): the first bucket of the highest bid
MaxByBid(s) ==
    s[CHOOSE i \in 1..Len(s) :
        /\ \A j \in 1..Len(s) : s[j].yes_bid <= s[i].yes_bid
        /\ \A j \in 1..(i - 1) : s[j].yes_bid < s[i].yes_bid]

find_peak_bucket(mkt) ==
    IF ValidBuckets(mkt) = <<>> THEN NoBucket ELSE MaxByBid(ValidBuckets(mkt))

\* the sort key of find_best_neighbor
TempKey(bucket) == IF bucket.temp_min = NoTemp THEN -999 ELSE bucket.temp_min

\* sorted(key=TempKey): ascending, equal keys keep their order
RECURSIVE InsertByTemp(_, _)
InsertByTemp(b, s) ==
    IF s = <<>> THEN <<b>>
    ELSE IF TempKey(Head(s)) <= TempKey(b) THEN <<Head(s)>> \o InsertByTemp(b, Tail(s))
    ELSE <<b>> \o s

RECURSIVE SortedByTemp(_)
SortedByTemp(s) ==
    IF s = <<>> THEN <<>>
    ELSE InsertByTemp(s[Len(s)], SortedByTemp(SubSeq(s, 1, Len(s) - 1)))

\* a neighbour is a candidate when its bid and the combined cost allow it
NeighborQualifiesAnyCost(peak, nb) == nb.yes_bid >= MIN_BUCKET_PRICE

NeighborQualifies(peak, nb) ==
    /\ nb.yes_bid >= MIN_BUCKET_PRICE
    /\ peak.yes_bid + nb.yes_bid < MAX_TOTAL_COST

find_best_neighbor(peak, mkt) ==
    LET sorted_buckets == SortedByTemp(mkt)
        n == Len(sorted_buckets)
        found == {i \in 1..n : sorted_buckets[i].ticker = peak.ticker}
    IN  IF found = {} THEN NoBucket
        ELSE LET peak_idx == CHOOSE i \in found : \A j \in found : i <= j
                 left == IF peak_idx > 1 /\ NeighborQualifies(peak, sorted_buckets[peak_idx - 1])
                         THEN <<sorted_buckets[peak_idx - 1]>> ELSE <<>>
                 right == IF peak_idx < n /\ NeighborQualifies(peak, sorted_buckets[peak_idx + 1])
                          THEN <<sorted_buckets[peak_idx + 1]>> ELSE <<>>
                 candidates == left \o right
             IN  IF candidates = <<>> THEN NoBucket ELSE MaxByBid(candidates)

select_spread(mkt, fc) ==
    IF fc.given THEN select_spread_with_edge(mkt, fc, MIN_EDGE).spread
    ELSE LET peak == find_peak_bucket(mkt)
             neighbor == find_best_neighbor(peak, mkt)
         IN  IF peak = NoBucket THEN NoSpread
             ELSE IF neighbor # NoBucket
                  THEN SpreadOrNone(<<peak, neighbor>>, peak.yes_bid + neighbor.yes_bid)
             ELSE SpreadOrNone(<<peak>>, peak.yes_bid)

SpreadInit ==
    \/ /\ \E n \in 0..MaxMarket : market \in EdgeMarkets(n)
       /\ forecast \in {[given |-> TRUE, probs |-> p] :
                          p \in [1..Len(market) -> ModelProbs]}
       /\ spread_call = NoSpreadCall
       /\ spread_ret = NoSpreadReturn
    \/ /\ \E n \in 0..MaxMarket : market \in LegacyMarkets(n)
       /\ forecast = NoForecast
       /\ spread_call = NoSpreadCall
       /\ spread_ret = NoSpreadReturn

SelectSpread ==
    /\ spread_call.fn = "none"
    /\ spread_call' = [NoSpreadCall EXCEPT !.fn = "select_spread"]
    /\ spread_ret' = [NoSpreadReturn EXCEPT !.spread = select_spread(market, forecast)]
    /\ UNCHANGED <<market, forecast>>
    /\ UNCHANGED notSpreadVars

SelectSpreadWithEdge ==
    /\ spread_call.fn = "none"
    /\ forecast.given
    /\ \E min_edge \in MinEdges :
          /\ spread_call' = [NoSpreadCall EXCEPT !.fn = "select_spread_with_edge",
                                                 !.min_edge = min_edge]
          /\ spread_ret' = select_spread_with_edge(market, forecast, min_edge)
    /\ UNCHANGED <<market, forecast>>
    /\ UNCHANGED notSpreadVars

FindPeakBucket ==
    /\ spread_call.fn = "none"
    /\ ~forecast.given
    /\ spread_call' = [NoSpreadCall EXCEPT !.fn = "find_peak_bucket"]
    /\ spread_ret' = [NoSpreadReturn EXCEPT !.bucket = find_peak_bucket(market)]
    /\ UNCHANGED <<market, forecast>>
    /\ UNCHANGED notSpreadVars

FindBestNeighbor ==
    /\ spread_call.fn = "none"
    /\ ~forecast.given
    /\ \E peak \in {market[i] : i \in 1..Len(market)} \cup {Stranger} :
          /\ spread_call' = [NoSpreadCall EXCEPT !.fn = "find_best_neighbor",
                                                 !.peak = peak]
          /\ spread_ret' = [NoSpreadReturn EXCEPT
                              !.bucket = find_best_neighbor(peak, market)]
    /\ UNCHANGED <<market, forecast>>
    /\ UNCHANGED notSpreadVars

SpreadNext ==
    SelectSpread \/ SelectSpreadWithEdge \/ FindPeakBucket \/ FindBestNeighbor

InitSpread ==
    /\ SpreadInit /\ LedgerQuiet /\ RunInit /\ ClientQuiet /\ HedgedQuiet
    /\ BotQuiet /\ MiscQuiet

SpecSpread == InitSpread /\ [][SpreadNext]_vars

(***************************************************************************)
(* BTCBotStrategy (src/strategy/btc_bot.py): its decision methods.         *)
(*                                                                         *)
(* A confidence is kept as a whole number of 1/ConfScale, a percent move   *)
(* as a whole number of basis points (0.01 %), minutes_left as whole       *)
(* minutes: with these units 0.5 + pct_abs * 0.4 is (500 + 4 * bp) / 1000  *)
(* and 0.5 + 0.5 * (1 - minutes_left / 15) is (30 - minutes_left) / 30,    *)
(* so every confidence is an exact multiple of 1 / 30000.                  *)
(***************************************************************************)
ConfScale == 30000
\* a probability written in percent, as a confidence
Conf(percent) == (percent * ConfScale) \div 100

\* max_daily_risk of the bot, in cents (run_btc_bot passes 100.0 dollars)
BotCeilings == {100, 10000}
BotMaxPrices == {50, 95}
BotMinConfidences == {Conf(50), Conf(65)}
\* <<min_contracts, contracts_per_bet>>
BotContractRanges == {<<2, 10>>, <<2, 3>>, <<1, 1>>}

\* the constructor arguments of the direct calls
BotConfigs ==
    {[min_confidence |-> mc, max_minutes_before_close |-> 10,
      min_minutes_before_close |-> 2, min_price_change_pct |-> 5,
      contracts_per_bet |-> r[2], min_contracts |-> r[1], max_price |-> mp,
      scale_by_confidence |-> sc] :
        mc \in BotMinConfidences, r \in BotContractRanges, mp \in BotMaxPrices,
        sc \in BOOLEAN}

\* quotes handed to the trade methods, in cents
UpYesAsks == {0, 1, 50, 95, 96, 98, 100}
UpNoBids == {0, 2, 4, 5, 20, 50, 100}
DownYesBids == {0, 3, 5, 6, 12, 50, 100}
DownNoAsks == {0, 50, 88, 95, 97, 98, 100}
TradeContracts == {1, 7}
TradeConfidences == {Conf(65), Conf(75), Conf(80)}

NoTrade == [trade |-> "none", price |-> 0]

\* which bet _execute_best_up_trade places, and at which price argument
UpTradeDirectOnly(max_price, yes_ask, no_bid) ==
    IF yes_ask <= max_price THEN [trade |-> "buy_yes", price |-> yes_ask]
    ELSE IF no_bid > 0 THEN [trade |-> "buy_yes", price |-> yes_ask]
    ELSE NoTrade

UpTrade(max_price, yes_ask, no_bid) ==
    IF yes_ask <= max_price THEN [trade |-> "buy_yes", price |-> yes_ask]
    ELSE IF no_bid > 0 /\ 100 - no_bid <= max_price
         THEN [trade |-> "sell_no", price |-> no_bid]
    ELSE NoTrade

\* which bet _execute_best_down_trade places, and at which price argument
DownTradeBuysNo(max_price, yes_bid, no_ask, confidence) ==
    IF no_ask <= max_price /\ yes_bid > 0
    THEN [trade |-> "buy_no", price |-> no_ask]
    ELSE IF yes_bid > 0 /\ 100 - yes_bid <= max_price
         THEN [trade |-> "sell_yes", price |-> yes_bid]
    ELSE IF yes_bid > 0 /\ yes_bid <= 5 /\ confidence >= Conf(75)
         THEN [trade |-> "sell_yes", price |-> yes_bid]
    ELSE NoTrade

DownTrade(max_price, yes_bid, no_ask, confidence) ==
    IF no_ask <= max_price /\ yes_bid > 0
    THEN [trade |-> "sell_yes", price |-> yes_bid]
    ELSE IF yes_bid > 0 /\ 100 - yes_bid <= max_price
         THEN [trade |-> "sell_yes", price |-> yes_bid]
    ELSE IF yes_bid > 0 /\ yes_bid <= 5 /\ confidence >= Conf(75)
         THEN [trade |-> "sell_yes", price |-> yes_bid]
    ELSE NoTrade

\* _place_bet: the price and side it hands to place_order
PlaceBetOrder(bet) ==
    IF bet.trade = "buy_yes" THEN [price |-> bet.price, side |-> "buy"]
    ELSE IF bet.trade = "sell_yes" THEN [price |-> bet.price, side |-> "sell"]
    ELSE IF bet.trade = "buy_no" THEN [price |-> 100 - bet.price, side |-> "sell"]
    ELSE [price |-> 100 - bet.price, side |-> "buy"]

\* a trade method from its choice of bet on: _place_bet, place_order, the
\* ledger, the record of the place_order call, and whether the method
\* returned True, returned False or let the exchange's exception escape
ExecuteBet(ticker, bet, contracts, collab) ==
    IF bet.trade = "none"
    THEN /\ UNCHANGED ledgerVars
         /\ bot_ret' = [NoBotReturn EXCEPT !.returned = "False"]
    ELSE LET o == PlaceBetOrder(bet)
             r == place_order(_daily_risk, _orders_placed, max_daily_risk,
                              dry_run, ticker, contracts, o.price, o.side, collab)
         IN  /\ ApplyLedger(r)
             /\ kalshi_calls' = kalshi_calls + (IF r.called THEN 1 ELSE 0)
             /\ ncalls' = ncalls + 1
             /\ last_call' = [outcome |-> r.outcome, ticker |-> ticker,
                              contracts |-> contracts, price |-> o.price,
                              side |-> o.side, risk_before |-> _daily_risk]
             /\ UNCHANGED <<max_daily_risk, dry_run>>
             /\ bot_ret' = [NoBotReturn EXCEPT
                              !.returned = IF r.outcome = "raised" THEN "raised"
                                           ELSE "True",
                              !.trade = bet.trade]

BotFieldsKept ==
    UNCHANGED <<bot_cfg, _traded_markets, bot_window_start_prices,
                _price_history, bot_clock, observed, bot_tick>>

ExecuteBestUpTrade ==
    /\ bot_call.fn = "none"
    /\ \E yes_ask \in UpYesAsks, no_bid \in UpNoBids, contracts \in TradeContracts,
          collab \in CollabOutcomes :
          /\ bot_call' = [NoBotCall EXCEPT !.fn = "_execute_best_up_trade",
                                           !.a = yes_ask, !.b = no_bid,
                                           !.contracts = contracts]
          /\ ExecuteBet("K1", UpTrade(bot_cfg.max_price, yes_ask, no_bid),
                        contracts, collab)
    /\ BotFieldsKept
    /\ UNCHANGED notBotVars

ExecuteBestDownTrade ==
    /\ bot_call.fn = "none"
    /\ \E yes_bid \in DownYesBids, no_ask \in DownNoAsks,
          contracts \in TradeContracts, confidence \in TradeConfidences,
          collab \in CollabOutcomes :
          /\ bot_call' = [NoBotCall EXCEPT !.fn = "_execute_best_down_trade",
                                           !.a = yes_bid, !.b = no_ask,
                                           !.contracts = contracts,
                                           !.confidence = confidence]
          /\ ExecuteBet("K1", DownTrade(bot_cfg.max_price, yes_bid, no_ask,
                                        confidence),
                        contracts, collab)
    /\ BotFieldsKept
    /\ UNCHANGED notBotVars

\* percent moves, in basis points, and minutes left, handed to _calculate_confidence
ConfidenceMoves == {-200, -113, -20, -15, -14, -5, 0, 5, 14, 15, 20, 112, 113, 200}
ConfidenceMinutes == {-5, 0, 2, 10, 15, 20}
\* confidences handed to _scale_contracts
ScaleConfidences ==
    {Conf(40), Conf(50), Conf(65), Conf(80), (Conf(65) + Conf(100)) \div 2,
     Conf(99), Conf(100), Conf(120)}

CalculateConfidenceUncapped(price_change_pct, minutes_left, has_momentum) ==
    LET pct_abs == Abs(price_change_pct)
        price_confidence == Min(500 + 4 * pct_abs, 950)
        time_factor == Max(0, 15 - minutes_left)
    IN  price_confidence * (15 + time_factor)
          + (IF has_momentum THEN Conf(15) ELSE 0)
          + (IF pct_abs >= 15 THEN Conf(10) ELSE 0)

\* price_confidence is in 1/1000, time_factor in 1/15, so that
\* price_confidence * (0.5 + 0.5 * time_factor) is their product in 1/30000
_calculate_confidence(price_change_pct, minutes_left, has_momentum) ==
    LET pct_abs == Abs(price_change_pct)
        price_confidence == Min(500 + 4 * pct_abs, 950)
        time_factor == Max(0, 15 - minutes_left)
        confidence == price_confidence * (15 + time_factor)
                        + (IF has_momentum THEN Conf(15) ELSE 0)
                        + (IF pct_abs >= 15 THEN Conf(10) ELSE 0)
    IN  Min(confidence, Conf(99))

\* int(n / d) for d > 0: the quotient cut towards zero
IntOf(n, d) == IF n >= 0 THEN n \div d ELSE -((-n) \div d)

\* the exact value of contracts is a whole number strictly inside the scale:
\* the float quotient and product can then fall just short of it, and int()
\* gives one less (min_confidence 0.65, confidence 0.825: 5, not 6)
CanFallShort(c, confidence) ==
    /\ c.scale_by_confidence
    /\ c.min_confidence < confidence /\ confidence < ConfScale
    /\ ((confidence - c.min_confidence) * (c.contracts_per_bet - c.min_contracts))
          % (ConfScale - c.min_confidence) = 0
    /\ c.min_contracts < c.contracts_per_bet

ScaleContractsUnclamped(c, confidence, short) ==
    IF ~c.scale_by_confidence THEN c.contracts_per_bet
    ELSE LET conf_range == ConfScale - c.min_confidence
             spread == c.contracts_per_bet - c.min_contracts
         IN  IF conf_range > 0
             THEN IntOf(c.min_contracts * conf_range
                          + (confidence - c.min_confidence) * spread, conf_range)
                  - (IF short THEN 1 ELSE 0)
             ELSE IntOf(c.min_contracts + spread, 1)

\* contracts = min_contracts + conf_pct * (contracts_per_bet - min_contracts),
\* over the common denominator conf_range; short: the float fell short of a
\* whole number
_scale_contracts(c, confidence, short) ==
    IF ~c.scale_by_confidence THEN c.contracts_per_bet
    ELSE LET conf_range == ConfScale - c.min_confidence
             spread == c.contracts_per_bet - c.min_contracts
             contracts == IF conf_range > 0
                          THEN IntOf(c.min_contracts * conf_range
                                       + (confidence - c.min_confidence) * spread,
                                     conf_range)
                               - (IF short THEN 1 ELSE 0)
                          ELSE IntOf(c.min_contracts + spread, 1)
         IN  Max(c.min_contracts, Min(contracts, c.contracts_per_bet))

CalculateConfidence ==
    /\ bot_call.fn = "none"
    /\ \E change \in ConfidenceMoves, minutes \in ConfidenceMinutes,
          momentum \in BOOLEAN :
          /\ bot_call' = [NoBotCall EXCEPT !.fn = "_calculate_confidence",
                                           !.a = change, !.b = minutes,
                                           !.flag = momentum]
          /\ bot_ret' = [NoBotReturn EXCEPT
                           !.returned = "number",
                           !.number = _calculate_confidence(change, minutes, momentum)]
    /\ BotFieldsKept
    /\ UNCHANGED ledgerVars
    /\ UNCHANGED notBotVars

ScaleContracts ==
    /\ bot_call.fn = "none"
    /\ \E confidence \in ScaleConfidences, short \in BOOLEAN :
          /\ short => CanFallShort(bot_cfg, confidence)
          /\ bot_call' = [NoBotCall EXCEPT !.fn = "_scale_contracts",
                                           !.confidence = confidence,
                                           !.flag = short]
          /\ bot_ret' = [NoBotReturn EXCEPT
                           !.returned = "number",
                           !.number = _scale_contracts(bot_cfg, confidence, short)]
    /\ BotFieldsKept
    /\ UNCHANGED ledgerVars
    /\ UNCHANGED notBotVars

BotCallsNext ==
    ExecuteBestUpTrade \/ ExecuteBestDownTrade \/ CalculateConfidence \/ ScaleContracts

\* a strategy as the constructor leaves it, for every configuration tried
InitBotCalls ==
    /\ bot_cfg \in BotConfigs
    /\ _traded_markets = {}
    /\ bot_window_start_prices = [t \in BotTickers |-> 0]
    /\ _price_history = <<>>
    /\ bot_clock = 0
    /\ observed = <<>>
    /\ bot_tick = NoBotTick
    /\ bot_call = NoBotCall
    /\ bot_ret = NoBotReturn
    /\ max_daily_risk \in BotCeilings
    /\ dry_run \in BOOLEAN
    /\ _daily_risk = 0
    /\ _orders_placed = <<>>
    /\ kalshi_calls = 0
    /\ ncalls = 0
    /\ last_call = NoCall
    /\ RunInit
    /\ ClientQuiet
    /\ HedgedQuiet
    /\ SpreadQuiet
    /\ MiscQuiet

SpecBotCalls == InitBotCalls /\ [][BotCallsNext]_vars

(***************************************************************************)
(* BTCBotStrategy.on_tick (_check_btc_markets): the window of one market,  *)
(* any number of ticks per minute.                                         *)
(***************************************************************************)
\* the last minute of the clock, and the number of prices ever appended
MaxBotClock == 3
MaxObserved == 5
\* the minute the window of the market closes
BotFirstClose == 3

BotCloseTime(t) == BotFirstClose

\* BTC prices the price feed returns (0: the fetch failed)
BotPrices == {0, 9980, 10000, 10020}
\* what get_price_at_time returns for the window start (0: None)
BotStartLookups == {0, StartPrice}
\* what the fallback get_btc_price returns when that lookup failed
BotFallbacks == {0, StartPrice}
\* <<yes_bid, yes_ask>> of an active market (0: the field is missing)
BotQuotes == {<<48, 50>>, <<97, 0>>}

\* the strategy that ticks
BotTickConfig ==
    [min_confidence |-> Conf(65), max_minutes_before_close |-> 2,
     min_minutes_before_close |-> 1, min_price_change_pct |-> 5,
     contracts_per_bet |-> 3, min_contracts |-> 2, max_price |-> 95,
     scale_by_confidence |-> TRUE]

\* ((current_price - start_price) / start_price) * 100, in basis points
BotChange(current_price, start_price) ==
    ((current_price - start_price) * 10000) \div start_price

\* self._price_history.append(price), cut to the last 4
Appended(history, price) ==
    LET h == Append(history, price)
    IN  IF Len(h) > 4 THEN SubSeq(h, Len(h) - 3, Len(h)) ELSE h

\* the changes between consecutive prices of the history
Changes(history) == [i \in 1..(Len(history) - 1) |-> history[i + 1] - history[i]]

DetectMomentumAnyDirection(history, is_up) ==
    IF Len(history) < 3 THEN FALSE
    ELSE LET changes == Changes(history)
             consecutive_up == Cardinality({i \in DOMAIN changes : changes[i] > 0})
             consecutive_down == Cardinality({i \in DOMAIN changes : changes[i] < 0})
         IN  consecutive_up >= 2 \/ consecutive_down >= 2

_detect_momentum(history, is_up) ==
    IF Len(history) < 3 THEN FALSE
    ELSE LET changes == Changes(history)
             consecutive_up == Cardinality({i \in DOMAIN changes : changes[i] > 0})
             consecutive_down == Cardinality({i \in DOMAIN changes : changes[i] < 0})
         IN  \/ is_up /\ consecutive_up >= 2
             \/ ~is_up /\ consecutive_down >= 2

\* a tick that returns before it looks at prices: nothing changes
BotQuietTick(t, did) ==
    /\ bot_tick' = [NoBotTick EXCEPT !.ticker = t, !.did = did]
    /\ UNCHANGED <<_traded_markets, bot_window_start_prices, _price_history,
                   observed>>
    /\ UNCHANGED ledgerVars

\* _get_window_start_price: the price it returns and the cache afterwards,
\* for what get_price_at_time (lookup) and the fallback get_btc_price return
WindowStartPrice(t, lookup, fallback) ==
    IF bot_window_start_prices[t] # 0
    THEN [price |-> bot_window_start_prices[t], cache |-> bot_window_start_prices]
    ELSE IF lookup # 0
         THEN [price |-> lookup,
               cache |-> [bot_window_start_prices EXCEPT ![t] = lookup]]
    ELSE [price |-> fallback, cache |-> bot_window_start_prices]

\* every outcome of _get_window_start_price for ticker t
WindowStartPrices(t) ==
    {WindowStartPrice(t, lookup, fallback) :
        lookup \in BotStartLookups, fallback \in BotFallbacks}

\* the tick from the price change on: momentum, gates, sizing and the trade
BotDecide(t, minutes_left, start_price, current_price) ==
    LET price_change_pct == BotChange(current_price, start_price)
        is_up == price_change_pct > 0
        history == Appended(_price_history, current_price)
        has_momentum == _detect_momentum(history, is_up)
        confidence == _calculate_confidence(price_change_pct, minutes_left,
                                            has_momentum)
        seen == [NoBotTick EXCEPT !.ticker = t,
                                  !.is_up = is_up, !.has_momentum = has_momentum,
                                  !.change = price_change_pct, !.appended = TRUE]
    IN  /\ _price_history' = history
        /\ observed' = Append(observed, current_price)
        /\ IF Abs(price_change_pct) < bot_cfg.min_price_change_pct
           THEN /\ bot_tick' = [seen EXCEPT !.did = "too_small"]
                /\ UNCHANGED <<_traded_markets, bot_ret>>
                /\ UNCHANGED ledgerVars
           ELSE IF confidence < bot_cfg.min_confidence
           THEN /\ bot_tick' = [seen EXCEPT !.did = "low_confidence",
                                            !.confidence = confidence]
                /\ UNCHANGED <<_traded_markets, bot_ret>>
                /\ UNCHANGED ledgerVars
           ELSE \E quote \in BotQuotes, collab \in CollabOutcomes,
                   short \in {FALSE} \cup {CanFallShort(bot_cfg, confidence)} :
                  LET yes_bid == quote[1]
                      yes_ask == IF quote[2] # 0 THEN quote[2] ELSE 100
                      no_bid == 100 - yes_ask
                      no_ask == IF yes_bid > 0 THEN 100 - yes_bid ELSE 100
                      contracts == _scale_contracts(bot_cfg, confidence, short)
                      bet == IF is_up
                             THEN UpTrade(bot_cfg.max_price, yes_ask, no_bid)
                             ELSE DownTrade(bot_cfg.max_price, yes_bid, no_ask,
                                            confidence)
                  IN  /\ ExecuteBet(t, bet, contracts, collab)
                      /\ bot_tick' = [seen EXCEPT
                                        !.did = IF bet.trade = "none" THEN "no_trade"
                                                ELSE IF bot_ret'.returned = "raised"
                                                     THEN "error"
                                                ELSE bet.trade,
                                        !.confidence = confidence]
                      /\ _traded_markets' = IF bot_ret'.returned = "True"
                                            THEN _traded_markets \cup {t}
                                            ELSE _traded_markets

\* _check_btc_markets without the test of _traded_markets
BotMarketTickRetrades(t) ==
    LET minutes_left == BotCloseTime(t) - bot_clock
    IN  \/ BotQuietTick(t, "no_window") /\ UNCHANGED bot_ret
        \/ IF minutes_left > bot_cfg.max_minutes_before_close
           THEN BotQuietTick(t, "waiting") /\ UNCHANGED bot_ret
           ELSE IF minutes_left < bot_cfg.min_minutes_before_close
           THEN BotQuietTick(t, "past_cutoff") /\ UNCHANGED bot_ret
           ELSE \E start \in WindowStartPrices(t), current_price \in BotPrices :
                   /\ bot_window_start_prices' = start.cache
                   /\ IF start.price <= 0 \/ current_price <= 0
                      THEN /\ bot_tick' = [NoBotTick EXCEPT
                                             !.ticker = t, !.did = "no_prices"]
                           /\ UNCHANGED <<_traded_markets, _price_history,
                                          observed, bot_ret>>
                           /\ UNCHANGED ledgerVars
                      ELSE BotDecide(t, minutes_left, start.price,
                                     current_price)

\* _check_btc_markets once the feed returned the market of ticker t
BotMarketTick(t) ==
    LET minutes_left == BotCloseTime(t) - bot_clock
    IN  IF t \in _traded_markets
        THEN BotQuietTick(t, "already_traded") /\ UNCHANGED bot_ret
        ELSE \/ BotQuietTick(t, "no_window") /\ UNCHANGED bot_ret
             \/ IF minutes_left > bot_cfg.max_minutes_before_close
                THEN BotQuietTick(t, "waiting") /\ UNCHANGED bot_ret
                ELSE IF minutes_left < bot_cfg.min_minutes_before_close
                THEN BotQuietTick(t, "past_cutoff")
                     /\ UNCHANGED bot_ret
                ELSE \E start \in WindowStartPrices(t), current_price \in BotPrices :
                        /\ bot_window_start_prices' = start.cache
                        /\ IF start.price <= 0 \/ current_price <= 0
                           THEN /\ bot_tick' = [NoBotTick EXCEPT
                                                  !.ticker = t, !.did = "no_prices"]
                                /\ UNCHANGED <<_traded_markets, _price_history,
                                               observed, bot_ret>>
                                /\ UNCHANGED ledgerVars
                           ELSE BotDecide(t, minutes_left, start.price,
                                          current_price)

\* on_tick: _check_btc_markets inside try/except Exception; the feed finds
\* no active market, raises, or returns the market of some ticker
BotTick ==
    /\ Len(observed) < MaxObserved
    /\ \/ BotQuietTick("", "no_market") /\ UNCHANGED bot_ret
       \/ BotQuietTick("", "error") /\ UNCHANGED bot_ret
       \/ \E t \in BotTickers : BotMarketTick(t)
    /\ UNCHANGED <<bot_cfg, bot_clock, bot_call>>
    /\ UNCHANGED notBotVars

BotMinutePasses ==
    /\ bot_clock < MaxBotClock
    /\ bot_clock' = bot_clock + 1
    /\ UNCHANGED <<bot_cfg, _traded_markets, bot_window_start_prices,
                   _price_history, observed, bot_tick, bot_call, bot_ret>>
    /\ UNCHANGED ledgerVars
    /\ UNCHANGED notBotVars

BotNext == BotTick \/ BotMinutePasses

\* run_btc_bot: a fresh strategy with a risk ceiling of 100 dollars
InitBot ==
    /\ bot_cfg = BotTickConfig
    /\ _traded_markets = {}
    /\ bot_window_start_prices = [t \in BotTickers |-> 0]
    /\ _price_history = <<>>
    /\ bot_clock = 0
    /\ observed = <<>>
    /\ bot_tick = NoBotTick
    /\ bot_call = NoBotCall
    /\ bot_ret = NoBotReturn
    /\ max_daily_risk = 10000
    /\ dry_run \in BOOLEAN
    /\ _daily_risk = 0
    /\ _orders_placed = <<>>
    /\ kalshi_calls = 0
    /\ ncalls = 0
    /\ last_call = NoCall
    /\ RunInit
    /\ ClientQuiet
    /\ HedgedQuiet
    /\ SpreadQuiet
    /\ MiscQuiet

SpecBot == InitBot /\ [][BotNext]_vars

(***************************************************************************)
(* Edge.kelly_fraction (src/models/forecast.py).                           *)
(*                                                                         *)
(* A probability is a whole number of thousandths.  A fraction is a pair   *)
(* <<numerator, denominator>> with a positive denominator.  The floating   *)
(* point result differs from the exact one by a rounding residue, which    *)
(* decides the sign only where the exact result is zero.                   *)
(***************************************************************************)
ProbScale == 1000

\* market prices in cents and model probabilities in thousandths
KellyPrices == {0, 1, 5, 30, 50, 99, 100}
KellyProbs == {0, 10, 50, 299, 300, 301, 500, 990, 1000}

RECURSIVE Gcd(_, _)
Gcd(a, b) == IF b = 0 THEN a ELSE Gcd(b, a % b)

\* the fraction n / d in lowest terms
Frac(n, d) ==
    LET g == Gcd(Abs(n), Abs(d))
        sn == IF d < 0 THEN -n ELSE n
    IN  <<sn \div g, Abs(d) \div g>>
FracMul(x, y) == Frac(x[1] * y[1], x[2] * y[2])
FracSub(x, y) == Frac(x[1] * y[2] - y[1] * x[2], x[2] * y[2])
FracDiv(x, y) == Frac(x[1] * y[2], x[2] * y[1])

\* the quotient and the products of inexact binary fractions are rounded
CanLeaveResidue(market_price, model_prob) ==
    /\ 0 < market_price
    /\ market_price < 100

KellyUnclamped(market_price, model_prob, residue) ==
    IF market_price >= 100 \/ market_price <= 0
    THEN [returned |-> TRUE, num |-> 0, den |-> 1, residue |-> FALSE]
    ELSE LET b == FracDiv(Frac(100 - market_price, 1), Frac(market_price, 1))
             pr == Frac(model_prob, ProbScale)
             q == FracSub(Frac(1, 1), pr)
             kelly == FracDiv(FracSub(FracMul(b, pr), q), b)
         IN  [returned |-> TRUE, num |-> kelly[1], den |-> kelly[2],
              residue |-> residue /\ kelly[1] = 0]

kelly_fraction(market_price, model_prob, residue) ==
    IF market_price >= 100 \/ market_price <= 0
    THEN [returned |-> TRUE, num |-> 0, den |-> 1, residue |-> FALSE]
    ELSE LET b == FracDiv(Frac(100 - market_price, 1), Frac(market_price, 1))
             pr == Frac(model_prob, ProbScale)
             q == FracSub(Frac(1, 1), pr)
             kelly == FracDiv(FracSub(FracMul(b, pr), q), b)
         IN  IF kelly[1] > 0
             THEN [returned |-> TRUE, num |-> kelly[1], den |-> kelly[2],
                   residue |-> FALSE]
             ELSE [returned |-> TRUE, num |-> 0, den |-> 1,
                   residue |-> residue /\ kelly[1] = 0]

KellyInit ==
    /\ kelly_edge \in [market_price : KellyPrices, model_prob : KellyProbs]
    /\ kelly_ret = NoKelly

KellyFraction ==
    /\ \E residue \in BOOLEAN :
          /\ residue => CanLeaveResidue(kelly_edge.market_price,
                                        kelly_edge.model_prob)
          /\ kelly_ret' = kelly_fraction(kelly_edge.market_price,
                                         kelly_edge.model_prob, residue)
    /\ UNCHANGED kelly_edge
    /\ UNCHANGED notKellyVars

KellyNext == KellyFraction

InitKelly ==
    /\ KellyInit /\ LedgerQuiet /\ RunInit /\ ClientQuiet /\ HedgedQuiet
    /\ SpreadQuiet /\ BotQuiet /\ CryptoQuiet /\ LateQuiet

SpecKelly == InitKelly /\ [][KellyNext]_vars

(***************************************************************************)
(* CryptoClient._get_price (src/clients/crypto.py): the price cache.       *)
(***************************************************************************)
_cache_ttl == 5

\* the last second of the clock, and the most requests the client issues
MaxCryptoClock == 6
MaxCryptoRequests == 3

\* the "usd" price of a 200 response (0: the response holds none)
CryptoPrices == {0, 100, 200}
\* what self.get and response.json() do: a 200 response, another status,
\* an exception out of the request, an exception out of the JSON parser
FetchOutcomes == {"200", "non200", "exception", "bad_json"}

CacheFreshForever(entry, now) == entry.cached

\* coin_id in self._price_cache and now - cached_time < self._cache_ttl
CacheFresh(entry, now) == entry.cached /\ now - entry.time < _cache_ttl

\* _get_price(coin_id)
GetPrice(coin_id) ==
    LET entry == _price_cache[coin_id]
    IN  IF CacheFresh(entry, crypto_now)
        THEN /\ crypto_ret' = [symbol |-> coin_id, returned |-> "value",
                               price |-> entry.price, outcome |-> "cached"]
             /\ UNCHANGED <<_price_cache, crypto_requests>>
        ELSE /\ crypto_requests < MaxCryptoRequests
             /\ crypto_requests' = crypto_requests + 1
             /\ \E outcome \in FetchOutcomes :
                   IF outcome = "200"
                   THEN \E price \in CryptoPrices :
                          /\ _price_cache' =
                                [_price_cache EXCEPT ![coin_id] =
                                    [cached |-> TRUE, price |-> price,
                                     time |-> crypto_now]]
                          /\ crypto_ret' = [symbol |-> coin_id,
                                            returned |-> "value",
                                            price |-> price, outcome |-> outcome]
                   ELSE /\ UNCHANGED _price_cache
                        /\ crypto_ret' = [symbol |-> coin_id,
                                          returned |-> "value",
                                          price |-> IF entry.cached
                                                    THEN entry.price ELSE 0,
                                          outcome |-> outcome]

GetBtcPrice ==
    /\ GetPrice("bitcoin")
    /\ UNCHANGED crypto_now
    /\ UNCHANGED notCryptoVars

GetEthPrice ==
    /\ GetPrice("ethereum")
    /\ UNCHANGED crypto_now
    /\ UNCHANGED notCryptoVars

CryptoSecondPasses ==
    /\ crypto_now < MaxCryptoClock
    /\ crypto_now' = crypto_now + 1
    /\ UNCHANGED <<_price_cache, crypto_requests, crypto_ret>>
    /\ UNCHANGED notCryptoVars

CryptoNext == GetBtcPrice \/ GetEthPrice \/ CryptoSecondPasses

InitCrypto ==
    /\ CryptoQuiet /\ LedgerQuiet /\ RunInit /\ ClientQuiet /\ HedgedQuiet
    /\ SpreadQuiet /\ BotQuiet /\ KellyQuiet /\ LateQuiet

SpecCrypto == InitCrypto /\ [][CryptoNext]_vars


(***************************************************************************)
(* Properties of the risk ledger (specification Spec).                     *)
(***************************************************************************)
RECURSIVE SumCost(_)
SumCost(orders) ==
    IF orders = <<>> THEN 0
    ELSE Cost(Head(orders).contracts, Head(orders).price) + SumCost(Tail(orders))

\* a step of the model that is one call of Strategy.place_order
IsPlaceOrderCall == ncalls' = ncalls + 1

\* C1: after any sequence of place_order calls the risk ledger _daily_risk
\* never exceeds max_daily_risk.
C1_RiskNeverExceedsCeiling == _daily_risk <= max_daily_risk

\* C1 witness: two orders were accepted, and a further call was refused by
\* the risk check.
C1_Witness ==
    /\ Len(_orders_placed) >= 2
    /\ _daily_risk > 0
    /\ last_call.outcome = "risk_rejected"

\* C2: place_order is a no-op (returns None, no collaborator call, ledger and
\* order list unchanged) whenever _daily_risk + cost > max_daily_risk and
\* whenever dry_run is set; an order whose cost brings the ledger exactly to
\* max_daily_risk is not rejected by the risk check.
C2_NoOpWhenOverCeilingOrDryRun ==
    [][IsPlaceOrderCall =>
        LET c == last_call'
            cost == c.contracts * c.price
        IN  /\ (dry_run \/ _daily_risk + cost > max_daily_risk) =>
                  /\ c.outcome \in {"risk_rejected", "dry_run"}
                  /\ kalshi_calls' = kalshi_calls
                  /\ UNCHANGED <<_daily_risk, _orders_placed>>
            /\ (_daily_risk + cost = max_daily_risk) =>
                  /\ c.outcome # "risk_rejected"
                  /\ ~dry_run => kalshi_calls' = kalshi_calls + 1
    ]_vars

\* C2 witness: an order of non-zero cost was accepted that brought the ledger
\* exactly to the ceiling.
C2_Witness ==
    /\ last_call.outcome = "placed"
    /\ last_call.contracts * last_call.price > 0
    /\ last_call.risk_before > 0
    /\ _daily_risk = max_daily_risk

\* C3: the ledger changes only when the collaborator returns an order; then
\* _daily_risk grows by exactly contracts*price/100 and that order is
\* appended; if the collaborator raises neither changes.  Hence _daily_risk
\* always equals the summed cost of the orders in _orders_placed.
C3_LedgerMatchesOrders ==
    /\ [](_daily_risk = SumCost(_orders_placed))
    /\ [][/\ IsPlaceOrderCall =>
               LET c == last_call'
               IN  IF c.outcome = "placed"
                   THEN /\ kalshi_calls' = kalshi_calls + 1
                        /\ _daily_risk' = _daily_risk + c.contracts * c.price
                        /\ _orders_placed' = Append(_orders_placed,
                               [ticker |-> c.ticker, side |-> c.side,
                                contracts |-> c.contracts, price |-> c.price])
                   ELSE UNCHANGED <<_daily_risk, _orders_placed>>
          /\ ~IsPlaceOrderCall => UNCHANGED <<_daily_risk, _orders_placed>>
       ]_vars

\* C3 witness: the collaborator raised on a call that passed the risk check,
\* after an order of non-zero cost had been recorded.
C3_Witness ==
    /\ last_call.outcome = "raised"
    /\ last_call.contracts * last_call.price > 0
    /\ _orders_placed # <<>>
    /\ _daily_risk > 0

(***************************************************************************)
(* Properties of Strategy.run (specification SpecRun).                     *)
(***************************************************************************)
\* C8: an Exception raised inside on_tick is caught by run: it does not end
\* the loop and triggers neither on_stop nor cleanup, and the next on_tick is
\* executed after the inter-tick sleep unless the duration bound, a stop() or
\* an interrupt ends the loop first.
C8_TickExceptionIsCaught ==
    [][/\ (run_pc = "on_tick" /\ run_pc' # "on_tick" /\ tick_failed') =>
              /\ run_pc' = "end_check"
              /\ UNCHANGED <<_running, calls, pending, exit_reason>>
       /\ (tick_failed /\ run_pc = "end_check" /\ run_pc' # "end_check") =>
              IF end_time # NoEnd /\ run_clock >= end_time
              THEN run_pc' = "on_stop" /\ exit_reason' = "duration"
              ELSE run_pc' = "sleep" /\ UNCHANGED calls
       /\ (tick_failed /\ run_pc = "sleep" /\ run_pc' # "sleep") =>
              \/ run_pc' = "loop_head" /\ run_clock' > run_clock
              \/ run_pc' = "on_stop" /\ exit_reason' = "interrupt"
       /\ (tick_failed /\ run_pc = "loop_head" /\ run_pc' # "loop_head") =>
              IF _running
              THEN run_pc' = "on_tick" /\ calls' = Append(calls, "on_tick")
              ELSE run_pc' = "on_stop" /\ exit_reason' = "stop"
    ]_vars

\* C8 witness: an on_tick raised, and the next on_tick is being executed.
C8_Witness == run_pc = "on_tick" /\ tick_failed /\ nticks >= 2

HookRank(h) ==
    CASE h = "setup" -> 1 [] h = "on_start" -> 2 [] h = "on_tick" -> 3
      [] h = "on_stop" -> 4 [] h = "cleanup" -> 5

CountOf(cs, h) == Cardinality({i \in DOMAIN cs : cs[i] = h})

\* C9: every execution of run calls setup, then on_start, then zero or more
\* on_tick, then on_stop, then cleanup, in that order; if on_stop returns,
\* on_stop and cleanup are each called exactly once however the loop ends;
\* and when setup or on_start raises no on_tick is ever executed.
C9_HookOrder ==
    /\ \A i \in 1..(Len(calls) - 1) :
          /\ HookRank(calls[i]) <= HookRank(calls[i + 1])
          /\ HookRank(calls[i]) = HookRank(calls[i + 1]) => calls[i] = "on_tick"
    /\ calls # <<>> => calls[1] = "setup"
    /\ CountOf(calls, "on_tick") > 0 => calls[2] = "on_start"
    /\ startup_failed => CountOf(calls, "on_tick") = 0
    /\ run_pc = "done" =>
          /\ CountOf(calls, "setup") = 1
          /\ CountOf(calls, "on_stop") = 1
          /\ pending # "on_stop_raised" =>
                /\ CountOf(calls, "cleanup") = 1
                /\ calls[Len(calls)] = "cleanup"
                /\ calls[Len(calls) - 1] = "on_stop"

\* C9 witness: a run that executed two ticks or more has ended on its
\* duration bound, with on_stop and cleanup called.
C9_Witness ==
    /\ run_pc = "done"
    /\ exit_reason = "duration"
    /\ CountOf(calls, "on_tick") >= 2
    /\ CountOf(calls, "cleanup") = 1

(***************************************************************************)
(* Properties of BaseClient._request (specification SpecClient).           *)
(***************************************************************************)
\* C10: for any pattern of transient failures _request makes at most
\* max_retries + 1 attempts; it returns the response of the first attempt
\* that does not fail transiently and makes no attempt after it; if all
\* max_retries + 1 attempts fail it raises the typed error of the last
\* attempt, with no backoff sleep after that final attempt.
C10_BoundedRetry ==
    LET n == Len(outcomes)
        failed(o) == o \in {"429", "network", "timeout"}
    IN  /\ n <= max_retries + 1
        /\ \A i \in 1..(n - 1) : failed(outcomes[i])
        /\ req_pc = "returned" =>
              /\ n >= 1
              /\ ~failed(outcomes[n])
              /\ result = outcomes[n]
              /\ backoffs = n - 1
        /\ (req_pc = "raised" /\ n >= 1 /\ failed(outcomes[n])) =>
              /\ n = max_retries + 1
              /\ result = (IF outcomes[n] = "429" THEN "RateLimitError"
                           ELSE "NetworkError")
              /\ backoffs = max_retries
        /\ req_pc \in {"attempt", "backoff"} =>
              /\ \A i \in 1..n : failed(outcomes[i])
              /\ backoffs = (IF req_pc = "attempt" THEN n ELSE n - 1)

\* C10 witness: three attempts failed, the first on the network and the last
\* with HTTP 429, and the request raised RateLimitError after two sleeps.
C10_Witness ==
    /\ req_pc = "raised"
    /\ max_retries = 2
    /\ Len(outcomes) = 3
    /\ outcomes[1] = "network"
    /\ outcomes[3] = "429"
    /\ result = "RateLimitError"
    /\ backoffs = 2


(***************************************************************************)
(* Claims about BTCHedgedStrategy, stated over SpecHedged.                 *)
(***************************************************************************)
\* a step of SpecHedged that is a tick: the clock stands still
IsTick == hclock' = hclock

EntryDids == {"gated", "entered", "entry_refused", "entry_raised"}
HedgeDids == {"hedged", "hedge_refused", "hedge_raised", "hedge_blocked"}

EntryFields(pos) ==
    <<pos.entry_side, pos.entry_price, pos.entry_contracts, pos.entry_btc_price>>

OrdersFor(t) == {i \in 1..Len(_orders_placed) : _orders_placed[i].ticker = t}

EntryOrdersFor(t) ==
    {i \in OrdersFor(t) :
        _orders_placed[i].side =
            (IF _positions[t].entry_side = "long" THEN "buy" ELSE "sell")}

\* C4: for every window ticker at most one entry order is accepted and at
\* most one position is created (a position exists exactly when the ticker is
\* in _traded_windows, with exactly one entry order behind it); once the
\* ticker is in _traded_windows no tick attempts an entry for it, and the
\* entry fields of an existing position never change.
C4_SingleEntryPerWindow ==
    /\ [](\A t \in Tickers :
            /\ HasPosition(t) <=> t \in _traded_windows
            /\ Cardinality(EntryOrdersFor(t)) = (IF HasPosition(t) THEN 1 ELSE 0))
    /\ [][\A t \in Tickers :
            /\ HasPosition(t) =>
                  EntryFields(_positions'[t]) = EntryFields(_positions[t])
            /\ (IsTick /\ t \in _traded_windows) =>
                  ~(last_tick'.ticker = t /\ last_tick'.did \in EntryDids)]_vars

C4_Witness ==
    /\ HasPosition("W1")
    /\ "W1" \in _traded_windows
    /\ last_tick = TickRecord("W1", "entry", "none", 0)

\* the percent move of current from entry is adverse to side and strictly
\* beyond trigger (hundredths of a percent)
AdverseBeyond(side, entry, current, trigger) ==
    /\ entry # 0
    /\ IF side = "long"
       THEN (current - entry) * 10000 < -(trigger * entry)
       ELSE (current - entry) * 10000 > trigger * entry

\* C5: on a Monitor-phase tick _execute_hedge is invoked for the ticker if
\* and only if it has a position, the position is unhedged, and the move of
\* the freshly fetched price from the position's entry_btc_price is strictly
\* below -hedge_trigger_pct (long) or strictly above +hedge_trigger_pct
\* (short).
C5_HedgeIffAdverseMoveSinceEntry ==
    [][(IsTick /\ last_tick'.phase = "monitor") =>
          LET t == last_tick'.ticker
          IN  (last_tick'.did \in HedgeDids) <=>
                 /\ HasPosition(t)
                 /\ ~_positions[t].hedged
                 /\ AdverseBeyond(_positions[t].entry_side,
                                  _positions[t].entry_btc_price,
                                  last_tick'.cur, cfg.hedge_trigger_pct)]_vars

\* a short entered at 9975 is hedged when the price is fetched at 10025
C5_Witness ==
    /\ last_tick.phase = "monitor"
    /\ last_tick.did = "hedged"
    /\ last_tick.ticker = "W1"
    /\ _positions["W1"].entry_side = "short"
    /\ _positions["W1"].hedged
    /\ _positions["W1"].entry_btc_price # StartPrice

\* C6: when a hedged position is settled, its pnl_cents is hedge_price -
\* entry_price for a long and entry_price - hedge_price for a short,
\* whichever the final direction.
C6_HedgedPnlIsDifferential ==
    [][\A t \in Tickers :
          (_positions[t].hedged /\ ~_positions[t].settled
                                /\ _positions'[t].settled) =>
             _positions'[t].pnl_cents =
                (IF _positions[t].entry_side = "long"
                 THEN _positions[t].hedge_price - _positions[t].entry_price
                 ELSE _positions[t].entry_price - _positions[t].hedge_price)]_vars

\* a hedged long settled after a final direction up: it counts as won, its
\* pnl is still the differential
C6_Witness ==
    \E t \in Tickers :
       /\ _positions[t].hedged
       /\ _positions[t].settled
       /\ _positions[t].entry_side = "long"
       /\ _positions[t].won
       /\ _positions[t].pnl_cents =
             _positions[t].hedge_price - _positions[t].entry_price

\* C7: once a position is settled no field of it changes again, and the
\* totals _total_pnl_cents and _windows_won do not change on a tick for it.
C7_SettledPositionNeverChanges ==
    [][\A t \in Tickers :
          _positions[t].settled =>
             /\ _positions'[t] = _positions[t]
             /\ (IsTick /\ last_tick'.ticker = t) =>
                   /\ _total_pnl_cents' = _total_pnl_cents
                   /\ _windows_won' = _windows_won]_vars


(***************************************************************************)
(* Claims about BaseClient's limiter and retry, stated over SpecClient.    *)
(***************************************************************************)
\* the timestamps of times that are less than one second older than times[j]
WithinSecondBefore(times, j) ==
    {i \in 1..j : times[j] - times[i] < Second}

\* C11: no more than rate_limit timestamps are recorded within any window of
\* one second (every recorded timestamp has at most rate_limit timestamps,
\* itself included, less than a second before it; _request_times still holds
\* all of those when it is appended), and an attempt that finds rate_limit
\* timestamps less than a second old records its own only once the oldest
\* of them is a second old, while any other attempt records the current time.
C11_RateLimitWindow ==
    /\ [](\A j \in 1..Len(_request_times) :
             Cardinality(WithinSecondBefore(_request_times, j)) <= rate_limit)
    /\ [][req_pc = "attempt" =>
            LET recent == {i \in 1..Len(_request_times) :
                              clk - _request_times[i] < Second}
                recorded == _request_times'[Len(_request_times')]
            IN  IF Cardinality(recent) >= rate_limit
                THEN \E i \in recent :
                        /\ \A k \in recent :
                              _request_times[i] <= _request_times[k]
                        /\ recorded - _request_times[i] >= Second
                ELSE recorded = clk]_vars

\* two requests were recorded at time 0 under rate_limit = 2; the third,
\* arriving within the second, was held back until time Second
C11_Witness ==
    /\ rate_limit = 2
    /\ Len(_request_times) = 3
    /\ _request_times[1] = 0
    /\ _request_times[2] = 0
    /\ _request_times[3] = Second

\* C12: an outcome that is neither a 429 response nor a network or timeout
\* error is the last outcome of its request: _request returns that response
\* (or lets that exception through) on the attempt that met it, and the
\* backoff sleeps of the request are those of the transient attempts before.
C12_NonTransientEndsRequest ==
    \A i \in 1..Len(outcomes) :
       outcomes[i] \in {"200", "404", "500", "other"} =>
          /\ i = Len(outcomes)
          /\ req_pc \in {"returned", "raised"}
          /\ req_pc = "raised" <=> outcomes[i] = "other"
          /\ result = outcomes[i]
          /\ backoffs = i - 1

\* a 500 response met on the first attempt, with retries allowed
C12_Witness ==
    /\ max_retries >= 1
    /\ outcomes = <<"500">>
    /\ req_pc = "returned"
    /\ backoffs = 0


(***************************************************************************)
(* Claims about the duration bound, stop() and restarts, over SpecRun.     *)
(***************************************************************************)
\* the post-tick check (lines 90-93) is made, in a run whose bound has
\* elapsed since it started
BoundElapsedAtCheck ==
    /\ run_pc = "end_check"
    /\ run_pc' # "end_check"
    /\ duration_minutes # NoEnd
    /\ run_clock - _start_time >= duration_minutes

\* with a bound of one minute or more, the loop exits at the first post-tick
\* check at which the bound has elapsed, and no on_tick starts after it
PositiveBoundEndsLoop ==
    [][(BoundElapsedAtCheck /\ duration_minutes > 0) =>
          (run_pc' = "on_stop" /\ nticks' = nticks)]_vars

\* C13: for every supplied duration_minutes, 0 included, the loop exits at
\* the first post-tick check at which the elapsed time has reached the bound
\* and no on_tick starts after that check.
C13_DurationBoundEndsLoop ==
    [][BoundElapsedAtCheck => (run_pc' = "on_stop" /\ nticks' = nticks)]_vars

\* stop() called during on_tick leaves the tick running
StopLeavesTickRunning ==
    [][(run_pc = "on_tick" /\ _running /\ ~_running') =>
          (run_pc' = "on_tick" /\ calls' = calls /\ stop_pc' = "on_tick")]_vars

\* after a stop() during on_tick no further on_tick starts in that execution
NoTickAfterStopInTick ==
    [][(stop_pc = "on_tick" /\ runs' = runs) =>
          (nticks' = nticks /\ run_pc' # "on_tick")]_vars

\* an execution stopped during on_tick ends having called on_stop and then
\* cleanup
StoppedRunIsCleanedUp ==
    (stop_pc = "on_tick" /\ run_pc = "done") =>
        /\ Len(calls) >= 2
        /\ calls[Len(calls) - 1] = "on_stop"
        /\ calls[Len(calls)] = "cleanup"

\* C14: a stop() issued while an on_tick is in flight does not interrupt the
\* tick; after the tick no further on_tick starts, and on_stop then cleanup
\* are executed.
C14_StopDuringTick ==
    /\ StopLeavesTickRunning
    /\ NoTickAfterStopInTick
    /\ []StoppedRunIsCleanedUp

\* C15: once run() has finished with on_stop and cleanup executed, a later
\* call to run() does not re-enter Running: no setup, on_start or on_tick
\* follows.
C15_NotRestartable ==
    [][(run_pc = "done" /\ calls # <<>> /\ calls[Len(calls)] = "cleanup") =>
          (run_pc' = "done" /\ ~_running')]_vars


(***************************************************************************)
(* Claims about the phases of BTCHedgedStrategy, over SpecHedged.          *)
(***************************************************************************)
InEntryPhase(t) ==
    /\ cfg.entry_window_end < MinutesLeft(t, hclock)
    /\ MinutesLeft(t, hclock) <= cfg.entry_window_start

InMonitorPhase(t) ==
    /\ cfg.hedge_window_end < MinutesLeft(t, hclock)
    /\ MinutesLeft(t, hclock) <= cfg.hedge_window_start

InPreOrHoldPhase(t) ==
    \/ MinutesLeft(t, hclock) > cfg.entry_window_start
    \/ 0 < MinutesLeft(t, hclock) /\ MinutesLeft(t, hclock) <= cfg.hedge_window_end

\* C16: a WindowPosition is created only on a tick with entry_window_end <
\* minutes_left <= entry_window_start, and a Monitor-phase tick places no
\* order but the hedge of an existing position.
C16_EntryOnlyInEntryPhase ==
    [][\A t \in Tickers :
          /\ (~HasPosition(t) /\ _positions'[t].entry_side # "none") =>
                InEntryPhase(t)
          /\ (IsTick /\ last_tick'.ticker = t /\ InMonitorPhase(t)
                     /\ _orders_placed' # _orders_placed) =>
                (HasPosition(t) /\ last_tick'.did = "hedged")]_vars

\* C17: a tick in the Pre-window phase or in the Hold phase places no order
\* and leaves _positions, _traded_windows, the risk ledger, _orders_placed
\* and the statistics counters unchanged.
C17_PreAndHoldChangeNothing ==
    [][\A t \in Tickers :
          (IsTick /\ last_tick'.ticker = t /\ InPreOrHoldPhase(t)) =>
             UNCHANGED <<_positions, _traded_windows, _daily_risk,
                         _orders_placed, _windows_traded, _windows_hedged,
                         _windows_won, _total_pnl_cents>>]_vars

\* a Hold-phase tick on a window holding an open, unhedged position
C17_Witness ==
    /\ last_tick.ticker = "W1"
    /\ last_tick.phase = "hold"
    /\ hclock = CloseTime("W1") - 1
    /\ HasPosition("W1")
    /\ ~_positions["W1"].hedged
    /\ ~_positions["W1"].settled

\* C18: a position is marked settled only on a tick with minutes_left <= 0,
\* whatever the configured windows.
C18_SettledOnlyAfterClose ==
    [][\A t \in Tickers :
          (~_positions[t].settled /\ _positions'[t].settled) =>
             MinutesLeft(t, hclock) <= 0]_vars


\* C19: every position whose window has closed is eventually settled, as
\* long as the strategy keeps ticking, whatever the market feed returns.
C19_EveryPositionSettled ==
    \A t \in Tickers :
       (HasPosition(t) /\ hclock >= CloseTime(t)) ~> _positions[t].settled


\* the tick being taken settles t with the final direction up / not up
SettlesUp(t) ==
    /\ ~_positions[t].settled /\ _positions'[t].settled
    /\ last_tick'.ticker = t /\ last_tick'.did = "settled_up"

SettlesDown(t) ==
    /\ ~_positions[t].settled /\ _positions'[t].settled
    /\ last_tick'.ticker = t /\ last_tick'.did = "settled_down"

\* the P&L per contract of an unhedged position
UnhedgedPnl(side, entry_price, up) ==
    IF side = "long"
    THEN (IF up THEN 100 - entry_price ELSE -entry_price)
    ELSE (IF ~up THEN entry_price ELSE -(100 - entry_price))

\* C20: settling an unhedged position records +(100 - entry_price) for a long
\* when the final direction is up and -entry_price otherwise, +entry_price
\* for a short when it is not up and -(100 - entry_price) otherwise;
\* _total_pnl_cents grows by that value times entry_contracts and
\* _windows_won grows by one exactly when the position won.
C20_UnhedgedSettlement ==
    [][\A t \in Tickers, up \in BOOLEAN :
          (~_positions[t].hedged /\ (IF up THEN SettlesUp(t) ELSE SettlesDown(t))) =>
             LET pos == _positions[t]
                 pnl == UnhedgedPnl(pos.entry_side, pos.entry_price, up)
                 won == (pos.entry_side = "long") <=> up
             IN  /\ _positions'[t].pnl_cents = pnl
                 /\ _positions'[t].won = won
                 /\ _total_pnl_cents' = _total_pnl_cents + pnl * pos.entry_contracts
                 /\ _windows_won' = _windows_won + (IF won THEN 1 ELSE 0)]_vars

\* an unhedged short settled after a final direction up: it lost
\* 100 - entry_price per contract
C20_Witness ==
    \E t \in Tickers :
       /\ last_tick.ticker = t
       /\ last_tick.did = "settled_up"
       /\ _positions[t].settled
       /\ ~_positions[t].hedged
       /\ _positions[t].entry_side = "short"
       /\ _positions[t].pnl_cents = -(100 - _positions[t].entry_price)
       /\ _total_pnl_cents < 0
       /\ _windows_won = 0

(***************************************************************************)
(* Properties of the spread selector (specification SpecSpread).           *)
(***************************************************************************)
RECURSIVE SumOfPrices(_)
SumOfPrices(buckets) ==
    IF buckets = <<>> THEN 0
    ELSE PriceOf(Head(buckets)) + SumOfPrices(Tail(buckets))

\* the call went through the edge-based selection
EdgeSelectionReturned ==
    \/ spread_call.fn = "select_spread_with_edge"
    \/ spread_call.fn = "select_spread" /\ forecast.given

\* the min_edge the call used
MinEdgeUsed ==
    IF spread_call.fn = "select_spread" THEN MIN_EDGE ELSE spread_call.min_edge

\* the forecast edge of a bucket of the market, in percentage points
EdgeOfBucket(bucket) ==
    LET i == CHOOSE k \in 1..Len(market) : market[k].ticker = bucket.ticker
    IN  forecast.probs[i] - PriceOf(bucket)

SelectedBuckets ==
    {spread_ret.spread.buckets[i] : i \in 1..Len(spread_ret.spread.buckets)}

\* C21: every SpreadSelection returned by select_spread_with_edge, or by
\* select_spread with a forecast, has between 1 and MAX_BUCKETS buckets, a
\* total_cost that is the sum of its buckets' prices, below 100 and within
\* MAX_TOTAL_COST, and only buckets of edge >= min_edge and price <=
\* MAX_BUCKET_PRICE.
C21_ReturnedSelectionIsBounded ==
    (EdgeSelectionReturned /\ ~spread_ret.spread.is_none) =>
        /\ Len(spread_ret.spread.buckets) >= 1
        /\ Len(spread_ret.spread.buckets) <= MAX_BUCKETS
        /\ spread_ret.spread.total_cost = SumOfPrices(spread_ret.spread.buckets)
        /\ spread_ret.spread.total_cost < 100
        /\ spread_ret.spread.total_cost <= MAX_TOTAL_COST
        /\ \A b \in SelectedBuckets :
              /\ EdgeOfBucket(b) >= MinEdgeUsed
              /\ PriceOf(b) <= MAX_BUCKET_PRICE

\* a selection of two buckets was returned after a third, dearer one was passed over
C21_Witness ==
    /\ spread_call.fn = "select_spread_with_edge"
    /\ ~spread_ret.spread.is_none
    /\ Len(spread_ret.spread.buckets) = MAX_BUCKETS
    /\ \E i \in 1..Len(market) :
          /\ PriceOf(market[i]) > MAX_BUCKET_PRICE
          /\ EdgeOfBucket(market[i]) >= MinEdgeUsed

\* the selected buckets' prices that were added before rank i was looked at
RECURSIVE CostBeforeRank(_)
CostBeforeRank(i) ==
    IF i <= 1 THEN 0
    ELSE CostBeforeRank(i - 1)
         + (IF \E b \in SelectedBuckets :
                  b.ticker = spread_ret.edges[i - 1].bucket_ticker
            THEN spread_ret.edges[i - 1].market_price ELSE 0)

\* the bucket of rank i has enough edge and breaks the price or the cost ceiling
RejectedAtRank(i) ==
    /\ spread_ret.edges[i].edge >= MinEdgeUsed
    /\ \/ spread_ret.edges[i].market_price > MAX_BUCKET_PRICE
       \/ CostBeforeRank(i) + spread_ret.edges[i].market_price > MAX_TOTAL_COST

\* C22: the edge-based selection stops at the first bucket of edge >=
\* min_edge that breaks the price ceiling or would push the running cost
\* over the cost ceiling: no bucket ranked below it is in the returned
\* selection.
C22_StopsAtFirstRejection ==
    (spread_call.fn = "select_spread_with_edge" /\ ~spread_ret.spread.is_none) =>
        \A i, j \in 1..Len(spread_ret.edges) :
            (i < j /\ RejectedAtRank(i)) =>
                \A b \in SelectedBuckets : b.ticker # spread_ret.edges[j].bucket_ticker

\* the buckets of the market whose bid lies within the price band
InBand(bucket) ==
    MIN_BUCKET_PRICE <= bucket.yes_bid /\ bucket.yes_bid <= MAX_BUCKET_PRICE

MarketBuckets == {market[i] : i \in 1..Len(market)}

\* no bucket of the market lies between the two in temperature order
AdjacentInTemperature(a, b) ==
    /\ a.ticker # b.ticker
    /\ ~\E c \in MarketBuckets :
          \/ TempKey(a) < TempKey(c) /\ TempKey(c) < TempKey(b)
          \/ TempKey(b) < TempKey(c) /\ TempKey(c) < TempKey(a)

\* nb may accompany peak: adjacent, bid high enough, combined cost low enough
QualifyingNeighbors(peak) ==
    {nb \in MarketBuckets :
        /\ AdjacentInTemperature(peak, nb)
        /\ nb.yes_bid >= MIN_BUCKET_PRICE
        /\ peak.yes_bid + nb.yes_bid < MAX_TOTAL_COST}

BestNeighborOf(peak, nb) ==
    /\ nb \in QualifyingNeighbors(peak)
    /\ \A other \in QualifyingNeighbors(peak) : other.yes_bid <= nb.yes_bid

LegacyReturned == spread_call.fn = "select_spread" /\ ~forecast.given

\* C30: without a forecast select_spread returns None when no bucket has a
\* bid within [MIN_BUCKET_PRICE, MAX_BUCKET_PRICE]; otherwise its first
\* bucket has the highest bid within that band, and a second bucket, if any,
\* is adjacent to the peak in temperature order, has bid >=
\* MIN_BUCKET_PRICE, keeps the combined bids below MAX_TOTAL_COST and has the
\* higher bid of the neighbours that qualify; find_best_neighbor returns
\* None for a peak that is no bucket of the market.
C30_LegacySelection ==
    /\ (LegacyReturned /\ ~\E b \in MarketBuckets : InBand(b)) =>
           spread_ret.spread.is_none
    /\ (LegacyReturned /\ \E b \in MarketBuckets : InBand(b)) =>
           /\ ~spread_ret.spread.is_none
           /\ Len(spread_ret.spread.buckets) \in {1, 2}
           /\ spread_ret.spread.buckets[1] \in MarketBuckets
           /\ InBand(spread_ret.spread.buckets[1])
           /\ \A b \in MarketBuckets :
                 InBand(b) => b.yes_bid <= spread_ret.spread.buckets[1].yes_bid
           /\ Len(spread_ret.spread.buckets) = 2 =>
                 BestNeighborOf(spread_ret.spread.buckets[1],
                                spread_ret.spread.buckets[2])
    /\ (spread_call.fn = "find_best_neighbor"
          /\ spread_call.peak \notin MarketBuckets) =>
           spread_ret.bucket = NoBucket
    /\ (spread_call.fn = "find_best_neighbor"
          /\ spread_call.peak \in MarketBuckets
          /\ spread_ret.bucket # NoBucket) =>
           BestNeighborOf(spread_call.peak, spread_ret.bucket)

\* the peak had two qualifying neighbours of different bids, out of market order
C30_Witness ==
    /\ LegacyReturned
    /\ ~spread_ret.spread.is_none
    /\ Len(spread_ret.spread.buckets) = 2
    /\ \E nb \in QualifyingNeighbors(spread_ret.spread.buckets[1]) :
          nb.yes_bid < spread_ret.spread.buckets[2].yes_bid
    /\ \E b \in MarketBuckets :
          /\ AdjacentInTemperature(spread_ret.spread.buckets[1], b)
          /\ b.yes_bid > MAX_BUCKET_PRICE

(***************************************************************************)
(* Properties of the BTC bot's decision methods (specification             *)
(* SpecBotCalls).                                                          *)
(***************************************************************************)
UpTradeReturned == bot_call.fn = "_execute_best_up_trade"
DownTradeReturned == bot_call.fn = "_execute_best_down_trade"

\* the method handed exactly one order to place_order: side at price
AskedToPlace(side, price) ==
    /\ ncalls = 1
    /\ last_call.side = side
    /\ last_call.price = price
    /\ last_call.contracts = bot_call.contracts
    /\ bot_ret.returned # "False"

AskedNothing ==
    /\ ncalls = 0
    /\ _orders_placed = <<>>
    /\ bot_ret.returned = "False"

\* C23: _execute_best_up_trade never places an order at a yes price above
\* max_price: it buys yes at yes_ask when yes_ask <= max_price; otherwise
\* it buys yes at 100 - no_bid when no_bid > 0 and 100 - no_bid <=
\* max_price; otherwise it places no order and returns False.
C23_UpTradePrice ==
    UpTradeReturned =>
        LET yes_ask == bot_call.a
            no_bid == bot_call.b
        IN  /\ ncalls = 1 => last_call.price <= bot_cfg.max_price
            /\ \A i \in 1..Len(_orders_placed) :
                  /\ _orders_placed[i].price <= bot_cfg.max_price
                  /\ _orders_placed[i].side = "buy"
            /\ IF yes_ask <= bot_cfg.max_price
               THEN AskedToPlace("buy", yes_ask)
               ELSE IF no_bid > 0 /\ 100 - no_bid <= bot_cfg.max_price
                    THEN AskedToPlace("buy", 100 - no_bid)
               ELSE AskedNothing

\* yes was too dear, and the order that sells no was placed as a purchase of yes
C23_Witness ==
    /\ UpTradeReturned
    /\ bot_call.a > bot_cfg.max_price
    /\ bot_ret.returned = "True"
    /\ bot_ret.trade = "sell_no"
    /\ Len(_orders_placed) = 1
    /\ _orders_placed[1].price = 100 - bot_call.b

\* C24: every order placed by _execute_best_down_trade is a sell of yes at
\* exactly yes_bid, with yes_bid > 0; when no_ask > max_price but yes_bid >
\* 0 and 100 - yes_bid <= max_price it sells yes at yes_bid; when yes_bid =
\* 0 it places no order and returns False.
C24_DownTradeSellsYes ==
    DownTradeReturned =>
        LET yes_bid == bot_call.a
            no_ask == bot_call.b
        IN  /\ ncalls \in {0, 1}
            /\ ncalls = 1 => (AskedToPlace("sell", yes_bid) /\ yes_bid > 0)
            /\ \A i \in 1..Len(_orders_placed) :
                  /\ _orders_placed[i].price = yes_bid
                  /\ _orders_placed[i].side = "sell"
            /\ (no_ask > bot_cfg.max_price /\ yes_bid > 0
                  /\ 100 - yes_bid <= bot_cfg.max_price) =>
                   AskedToPlace("sell", yes_bid)
            /\ yes_bid = 0 => AskedNothing

\* no was too dear, and yes was sold at its bid, which is not 100 - no_ask
C24_Witness ==
    /\ DownTradeReturned
    /\ bot_call.b > bot_cfg.max_price
    /\ bot_call.a # 100 - bot_call.b
    /\ bot_ret.returned = "True"
    /\ Len(_orders_placed) = 1
    /\ _orders_placed[1].price = bot_call.a
    /\ _orders_placed[1].side = "sell"

ScaleReturned == bot_call.fn = "_scale_contracts"

\* what C26 says of a call of _scale_contracts that returned bot_ret.number;
\* exact: the truncation is that of the exact value of the expression
ScalesLinearly(exact) ==
    LET c == bot_call.confidence
        lo == bot_cfg.min_contracts
        hi == bot_cfg.contracts_per_bet
        d == ConfScale - bot_cfg.min_confidence
        n == lo * d + (c - bot_cfg.min_confidence) * (hi - lo)
        r == bot_ret.number
    IN  /\ lo <= r /\ r <= hi
        /\ \A c2 \in ScaleConfidences, short \in BOOLEAN :
              (c2 > c /\ (short => CanFallShort(bot_cfg, c2))) =>
                  _scale_contracts(bot_cfg, c2, short) >= r
        /\ c = bot_cfg.min_confidence => r = lo
        /\ c = ConfScale => r = hi
        /\ (bot_cfg.min_confidence < c /\ c < ConfScale) =>
              \/ r * d <= n /\ n < (r + 1) * d
              \/ ~exact /\ n = (r + 1) * d

\* C26 as stated: with min_contracts <= contracts_per_bet and min_confidence
\* < 1, _scale_contracts returns an integer in [min_contracts,
\* contracts_per_bet] that is non-decreasing in confidence, is min_contracts
\* at confidence = min_confidence, contracts_per_bet at confidence = 1.0,
\* and in between the integer truncation of min_contracts + (confidence -
\* min_confidence) / (1 - min_confidence) * (contracts_per_bet -
\* min_contracts).
C26_ScaleContractsAsStated ==
    (ScaleReturned /\ bot_cfg.min_contracts <= bot_cfg.contracts_per_bet
       /\ bot_cfg.min_confidence < ConfScale) => ScalesLinearly(TRUE)

\* C26, amended: the same when scale_by_confidence is set, the truncation
\* being that of the float value, which is one less than the exact value
\* where that is a whole number the float falls short of; when
\* scale_by_confidence is not set, _scale_contracts returns
\* contracts_per_bet whatever the confidence.
C26_ScaleContracts ==
    (ScaleReturned /\ bot_cfg.min_contracts <= bot_cfg.contracts_per_bet
       /\ bot_cfg.min_confidence < ConfScale) =>
        IF bot_cfg.scale_by_confidence THEN ScalesLinearly(FALSE)
        ELSE bot_ret.number = bot_cfg.contracts_per_bet

\* a confidence strictly between the ends gave a count strictly between them
C26_Witness ==
    /\ ScaleReturned
    /\ bot_cfg.scale_by_confidence
    /\ bot_cfg.min_confidence < bot_call.confidence
    /\ bot_call.confidence < ConfScale
    /\ bot_cfg.min_contracts < bot_ret.number
    /\ bot_ret.number < bot_cfg.contracts_per_bet

ConfidenceReturned == bot_call.fn = "_calculate_confidence"

\* C27: _calculate_confidence is non-decreasing in |price_change_pct|, at
\* least as large with momentum as without, non-increasing in minutes_left,
\* and never above 0.99.
C27_ConfidenceMonotone ==
    ConfidenceReturned =>
        LET change == bot_call.a
            minutes == bot_call.b
            momentum == bot_call.flag
            r == bot_ret.number
        IN  /\ \A change2 \in ConfidenceMoves :
                  Abs(change2) >= Abs(change) =>
                      _calculate_confidence(change2, minutes, momentum) >= r
            /\ _calculate_confidence(change, minutes, TRUE) >= r
            /\ _calculate_confidence(change, minutes, FALSE) <= r
            /\ \A minutes2 \in ConfidenceMinutes :
                  minutes2 >= minutes =>
                      _calculate_confidence(change, minutes2, momentum) <= r
            /\ r <= Conf(99)
            /\ r * 100 <= 99 * ConfScale

\* the cap was needed: the sum of the parts was above 0.99
C27_Witness ==
    /\ ConfidenceReturned
    /\ bot_ret.number = Conf(99)
    /\ bot_call.flag
    /\ Abs(bot_call.a) >= 15
    /\ bot_call.b < 2


(***************************************************************************)
(* Properties of the BTC bot's ticks (specification SpecBot).              *)
(***************************************************************************)
\* the tick got as far as tracking the current price
PriceTracked == bot_tick.appended

\* the last (at most 4) of the prices tracked so far
LastTracked ==
    LET n == Len(observed)
    IN  IF n > 4 THEN SubSeq(observed, n - 3, n) ELSE observed

\* the number of rising (direction TRUE) or falling steps between
\* neighbouring prices of the history
StepsInDirection(is_up) ==
    Cardinality({i \in 1..(Len(_price_history) - 1) :
                    IF is_up THEN _price_history[i + 1] > _price_history[i]
                    ELSE _price_history[i + 1] < _price_history[i]})

KellyReturned == kelly_ret.returned

\* the returned fraction is exactly zero
KellyIsZero == kelly_ret.num = 0 /\ ~kelly_ret.residue
\* the returned fraction is above zero, if only by a rounding residue
KellyIsPositive == kelly_ret.num > 0 \/ kelly_ret.residue

\* model_prob compared with market_price / 100
ProbAtPrice == kelly_edge.model_prob * 100 = kelly_edge.market_price * ProbScale
ProbBelowPrice == kelly_edge.model_prob * 100 < kelly_edge.market_price * ProbScale
ProbAbovePrice == kelly_edge.model_prob * 100 > kelly_edge.market_price * ProbScale
PriceInside == 0 < kelly_edge.market_price /\ kelly_edge.market_price < 100

\* C28 as stated: kelly_fraction is >= 0; it is 0 whenever model_prob <=
\* market_price/100 and whenever market_price is 0 or 100; and it is
\* strictly positive when 0 < market_price < 100 and model_prob >
\* market_price/100.
C28_KellyAsStated ==
    KellyReturned =>
        /\ kelly_ret.num >= 0 /\ kelly_ret.den > 0
        /\ (ProbBelowPrice \/ ProbAtPrice) => KellyIsZero
        /\ ~PriceInside => KellyIsZero
        /\ (PriceInside /\ ProbAbovePrice) => KellyIsPositive

\* C28: kelly_fraction is >= 0; it is 0 whenever market_price is 0 or 100
\* and whenever model_prob is below market_price/100 by more than rounding
\* error; where model_prob equals market_price/100 it is 0 or a positive
\* rounding residue; and it is strictly positive when 0 < market_price < 100
\* and model_prob is above market_price/100 by more than rounding error.
C28_KellyFraction ==
    KellyReturned =>
        /\ kelly_ret.num >= 0 /\ kelly_ret.den > 0
        /\ ProbBelowPrice => KellyIsZero
        /\ ~PriceInside => KellyIsZero
        /\ ProbAtPrice => kelly_ret.num = 0
        /\ (PriceInside /\ ProbAbovePrice) => kelly_ret.num > 0

\* C28 witness: the fraction of an Edge priced at 5 cents with a model
\* probability of 0.05 came back as a rounding residue above zero.
C28_Witness ==
    /\ KellyReturned
    /\ kelly_edge.market_price = 5
    /\ kelly_edge.model_prob = 50
    /\ kelly_ret.num = 0
    /\ kelly_ret.residue

(***************************************************************************)
(* Properties of CryptoClient._get_price (specification SpecCrypto).       *)
(***************************************************************************)
\* a step of the model that is one call of _get_price(coin_id)
IsGetPrice(coin_id) == crypto_now' = crypto_now /\ crypto_ret'.symbol = coin_id

\* C29: _get_price never raises; while a cached value is younger than the
\* 5-second time-to-live it returns that value without issuing a request;
\* from the time-to-live on it fetches, and on fetch failure (exception or
\* non-200 response) it returns the last cached value and leaves the cache
\* entry and its timestamp unchanged, or returns 0 if nothing was ever
\* cached for that symbol.
C29_GetPriceFallsBackToCache ==
    [][\A coin_id \in CryptoSymbols :
        IsGetPrice(coin_id) =>
            LET entry == _price_cache[coin_id]
                age == crypto_now - entry.time
                fetched == crypto_requests' = crypto_requests + 1
                failed == fetched /\ crypto_ret'.outcome # "200"
            IN  /\ crypto_ret'.returned = "value"
                /\ fetched \/ crypto_requests' = crypto_requests
                /\ (entry.cached /\ age < 5) =>
                      /\ ~fetched
                      /\ crypto_ret'.price = entry.price
                      /\ UNCHANGED _price_cache
                /\ (entry.cached /\ age >= 5) => fetched
                /\ ~entry.cached => fetched
                /\ failed =>
                      /\ UNCHANGED _price_cache
                      /\ entry.cached => crypto_ret'.price = entry.price
                      /\ ~entry.cached => crypto_ret'.price = 0
    ]_vars

\* C29 witness: a price cached more than 5 seconds ago came back from a call
\* whose request raised, and the cache still holds it with its old timestamp.
C29_Witness ==
    /\ crypto_ret.symbol = "bitcoin"
    /\ crypto_ret.outcome = "exception"
    /\ crypto_ret.price = 100
    /\ _price_cache["bitcoin"] = [cached |-> TRUE, price |-> 100, time |-> 0]
    /\ crypto_now > 5
    /\ crypto_requests = 2

(***************************************************************************)
(* Further properties of BTCHedgedStrategy (specification SpecHedged).     *)
(***************************************************************************)
\* the tick of this step ran _execute_hedge for ticker t
HedgeAttempted(t) ==
    /\ last_tick' # last_tick \/ _positions' # _positions
    /\ hclock' = hclock
    /\ last_tick'.ticker = t
    /\ last_tick'.did \in {"hedged", "hedge_blocked", "hedge_refused", "hedge_raised"}

\* the price and the side that close the position pos at the quote q
TouchPrice(pos, q) == IF pos.entry_side = "long" THEN q[1] ELSE YesAsk(q)
ClosingSide(pos) == IF pos.entry_side = "long" THEN "sell" ELSE "buy"
\* the closing trade cannot be attempted at the quote q
NoTouch(pos, q) == IF pos.entry_side = "long" THEN q[1] = 0 ELSE YesAsk(q) > 99

\* this step appended exactly one order to the order list
OrderPlacedInStep ==
    /\ Len(_orders_placed') = Len(_orders_placed) + 1
    /\ SubSeq(_orders_placed', 1, Len(_orders_placed)) = _orders_placed

\* C31: a position's hedged flag changes only from false to true, only on a
\* Monitor-phase tick, and only when place_order returned an order for the
\* closing trade (sell at the current yes_bid for a long, buy at the current
\* yes_ask for a short); hedge_price is then that touch price.  If the
\* closing order is refused or not attempted (yes_bid = 0 for a long,
\* yes_ask > 99 for a short), the position and _windows_hedged are unchanged.
C31_HedgedOnlyByClosingOrder ==
    [][\A t \in Tickers :
        LET before == _positions[t]
            after == _positions'[t]
            q == last_tick'.quote
        IN  /\ before.hedged =>
                  /\ after.hedged
                  /\ after.hedge_price = before.hedge_price
            /\ (~before.hedged /\ after.hedged) =>
                  /\ HedgeAttempted(t)
                  /\ InMonitorPhase(t)
                  /\ before.entry_side # "none"
                  /\ ~NoTouch(before, q)
                  /\ OrderPlacedInStep
                  /\ LET order == _orders_placed'[Len(_orders_placed')]
                     IN  /\ order.ticker = t
                         /\ order.side = ClosingSide(before)
                         /\ order.price = TouchPrice(before, q)
                  /\ after.hedge_price = TouchPrice(before, q)
                  /\ _windows_hedged' = _windows_hedged + 1
            /\ (HedgeAttempted(t) /\ (NoTouch(before, q) \/ ~OrderPlacedInStep)) =>
                  /\ UNCHANGED <<_positions, _windows_hedged, _orders_placed>>
                  /\ last_tick'.did # "hedged"
    ]_vars

\* C31 witness: a short position was closed by a buy at the yes_ask of 50.
C31_Witness ==
    /\ last_tick.did = "hedged"
    /\ last_tick.quote = <<48, 50>>
    /\ _positions[last_tick.ticker].entry_side = "short"
    /\ _positions[last_tick.ticker].hedged
    /\ _positions[last_tick.ticker].hedge_price = 50
    /\ _windows_hedged = 1

\* the position of ticker t exists
PositionCreated(t) == _positions[t].entry_side # "none"

\* |entry_change_pct| >= min_entry_change, in hundredths of a percent
EntryMoveLargeEnough(pos) ==
    Abs(pos.entry_change_pct.diff) * 10000
        >= cfg.min_entry_change * pos.entry_change_pct.base

\* edge_pct >= min_edge_pct, with the estimated win percentage
\* min(50 + 60 * |change|, 70) as the fair value of the side taken
EntryEdgeLargeEnough(pos) ==
    LET base == pos.entry_change_pct.base
        raw == 50 * base + 6000 * Abs(pos.entry_change_pct.diff)
        win == IF raw < 70 * base THEN raw ELSE 70 * base
    IN  IF pos.entry_side = "long"
        THEN 100 * (win - pos.entry_price * base)
                 >= cfg.min_edge_pct * pos.entry_price * base
        ELSE 100 * (pos.entry_price * base - (100 * base - win))
                 >= cfg.min_edge_pct * (100 * base - win)

\* C32: every WindowPosition ever created satisfies the entry gates
\* evaluated on its entry tick: |entry_change_pct| >= min_entry_change; the
\* computed edge_pct >= min_edge_pct; and entry_price <= max_price if it is
\* long (created only when the percent change is positive), or
\* 100 - entry_price <= max_price if it is short (created only when the
\* percent change is not positive).
C32_PositionsPassedEntryGates ==
    \A t \in Tickers :
        PositionCreated(t) =>
            LET pos == _positions[t]
            IN  /\ EntryMoveLargeEnough(pos)
                /\ EntryEdgeLargeEnough(pos)
                /\ pos.entry_side = "long" =>
                      /\ pos.entry_change_pct.diff > 0
                      /\ pos.entry_price <= cfg.max_price
                /\ pos.entry_side = "short" =>
                      /\ pos.entry_change_pct.diff <= 0
                      /\ 100 - pos.entry_price <= cfg.max_price

\* C32 witness: a short position was entered whose risk of 52 cents is
\* exactly max_price, and a long position at 50 cents.
C32_Witness ==
    /\ cfg.max_price = 52
    /\ \E t \in Tickers :
          /\ _positions[t].entry_side = "short"
          /\ _positions[t].entry_price = 48
    /\ \E t \in Tickers :
          /\ _positions[t].entry_side = "long"
          /\ _positions[t].entry_price = 50

\* C38: whenever a position is hedged, the hedge closes the whole position:
\* hedge_contracts equals entry_contracts, for every configuration of the
\* strategy.
C38_HedgeClosesWholePosition ==
    \A t \in Tickers :
        _positions[t].hedged =>
            _positions[t].hedge_contracts = _positions[t].entry_contracts

\* the tickers that have a position, a hedged one, a settled one
WithPosition == {t \in Tickers : _positions[t].entry_side # "none"}
WithHedge == {t \in WithPosition : _positions[t].hedged}
WithSettlement == {t \in WithPosition : _positions[t].settled}

\* the sum of pnl_cents * entry_contracts over the positions of the tickers S
RECURSIVE RealisedPnl(_)
RealisedPnl(S) ==
    IF S = {} THEN 0
    ELSE LET t == CHOOSE x \in S : TRUE
         IN  _positions[t].pnl_cents * _positions[t].entry_contracts
                 + RealisedPnl(S \ {t})

\* C39: in every reachable state of BTCHedgedStrategy, _windows_traded = the
\* number of entries in _positions = the size of _traded_windows;
\* _windows_hedged equals the number of hedged positions and is <=
\* _windows_traded; _windows_won equals the number of settled positions with
\* won = true; and _total_pnl_cents equals the sum of pnl_cents *
\* entry_contracts over the settled positions.
C39_CountersMatchPositions ==
    /\ _windows_traded = Cardinality(WithPosition)
    /\ _windows_traded = Cardinality(_traded_windows)
    /\ _traded_windows = WithPosition
    /\ _windows_hedged = Cardinality(WithHedge)
    /\ _windows_hedged <= _windows_traded
    /\ _windows_won = Cardinality({t \in WithSettlement : _positions[t].won})
    /\ _total_pnl_cents = RealisedPnl(WithSettlement)
    /\ \A t \in Tickers : _positions[t].won => _positions[t].settled

\* C39 witness: two windows were traded; the first was hedged at a loss and
\* then settled as won, the second is still open.
C39_Witness ==
    /\ _windows_traded = 2
    /\ _windows_hedged = 1
    /\ _windows_won = 1
    /\ Cardinality(WithSettlement) = 1
    /\ WithHedge = WithSettlement
    /\ _total_pnl_cents < 0

(***************************************************************************)
(* BTCHedgedStrategy._calculate_entry_price called directly                *)
(* (specification SpecEntry): the arguments are drawn in the initial state *)
(* and the one action applies the function to them.                        *)
(***************************************************************************)

\* integer quotes in cents, 0..100; the call is made with yes_bid <= yes_ask
EntryQuotes == {0, 1, 2, 3, 4, 10, 47, 48, 49, 50, 51, 52, 96, 97, 98, 99, 100}

EntryInit ==
    /\ entry_call \in [use_limit_orders : BOOLEAN, is_up : BOOLEAN,
                        yes_bid : EntryQuotes, yes_ask : EntryQuotes]
    /\ entry_call.yes_bid <= entry_call.yes_ask
    /\ entry_ret = NoEntryReturn

CalculateEntryPrice ==
    /\ entry_ret' =
          [returned |-> TRUE,
           price |-> _calculate_entry_price(
                         [use_limit_orders |-> entry_call.use_limit_orders],
                         entry_call.is_up, entry_call.yes_bid,
                         entry_call.yes_ask)]
    /\ UNCHANGED entry_call
    /\ UNCHANGED notEntryVars

EntryNext == CalculateEntryPrice

InitEntry ==
    /\ EntryInit /\ LedgerQuiet /\ RunInit /\ ClientQuiet /\ HedgedQuiet
    /\ SpreadQuiet /\ BotQuiet /\ KellyQuiet /\ CryptoQuiet
    /\ DistQuiet /\ WeatherQuiet

SpecEntry == InitEntry /\ [][EntryNext]_vars

\* the touch price of the side entered
EntryTouch == IF entry_call.is_up THEN entry_call.yes_ask ELSE entry_call.yes_bid

\* floor((yes_bid + yes_ask) / 2), as the largest m with 2m <= bid + ask
EntryMid ==
    CHOOSE m \in 0..100 :
        /\ 2 * m <= entry_call.yes_bid + entry_call.yes_ask
        /\ 2 * (m + 1) > entry_call.yes_bid + entry_call.yes_ask

TakesTouch ==
    \/ ~entry_call.use_limit_orders
    \/ entry_call.yes_ask - entry_call.yes_bid <= 2

\* C33: for integer quotes with 0 <= yes_bid <= yes_ask <= 100 the function
\* returns the touch price (ask for a long, bid for a short) in
\* market-taking mode or when the spread is at most 2, and otherwise
\* min(mid + 1, ask) for a long and max(mid - 1, bid) for a short, mid
\* being the floor of the midpoint; the result always lies in [bid, ask].
C33_EntryPriceWithinQuote ==
    entry_ret.returned =>
        /\ TakesTouch => entry_ret.price = EntryTouch
        /\ (~TakesTouch /\ entry_call.is_up) =>
               /\ entry_ret.price <= EntryMid + 1
               /\ entry_ret.price <= entry_call.yes_ask
               /\ entry_ret.price \in {EntryMid + 1, entry_call.yes_ask}
        /\ (~TakesTouch /\ ~entry_call.is_up) =>
               /\ entry_ret.price >= EntryMid - 1
               /\ entry_ret.price >= entry_call.yes_bid
               /\ entry_ret.price \in {EntryMid - 1, entry_call.yes_bid}
        /\ entry_call.yes_bid <= entry_ret.price
        /\ entry_ret.price <= entry_call.yes_ask

\* a limit-order long over a wide odd spread: bid 47, ask 52, mid 49, and
\* the price returned is 50, strictly inside the quote
C33_Witness ==
    /\ entry_ret.returned
    /\ entry_call.use_limit_orders /\ entry_call.is_up
    /\ entry_call.yes_bid = 47 /\ entry_call.yes_ask = 52
    /\ entry_ret.price = 50


(***************************************************************************)
(* A further property of Strategy.run (specification SpecRun)              *)
(***************************************************************************)

\* C37: cleanup() is executed on every exit from Strategy.run, including
\* when on_stop itself raises: whenever run has ended, the last hook it
\* called is cleanup.
C37_CleanupOnEveryExit ==
    run_pc = "done" =>
        /\ CountOf(calls, "cleanup") = 1
        /\ calls[Len(calls)] = "cleanup"


(***************************************************************************)
(* Further properties of BTCBotStrategy.on_tick (specification SpecBot)    *)
(***************************************************************************)

\* an order for ticker t is in the ledger
OrderPlacedFor(t) ==
    \E i \in DOMAIN _orders_placed : _orders_placed[i].ticker = t

\* C34: _execute_best_up_trade and _execute_best_down_trade return True,
\* and the ticker is added to _traded_markets, only if an order was
\* actually placed for it; a bet refused by the risk ceiling or suppressed
\* by dry-run leaves the ticker out of _traded_markets.
C34_TradedOnlyIfOrderPlaced ==
    /\ bot_ret.returned = "True" => last_call.outcome = "placed"
    /\ \A t \in BotTickers : t \in _traded_markets => OrderPlacedFor(t)

\* the step appends an order to the ledger
BotOrderPlacedInStep == Len(_orders_placed') > Len(_orders_placed)

\* the tick just taken was within the betting window and passed the price
\* change and confidence gates
BotGatesPassed ==
    LET minutes_left == BotCloseTime(bot_tick'.ticker) - bot_clock
    IN  /\ bot_cfg.min_minutes_before_close <= minutes_left
        /\ minutes_left <= bot_cfg.max_minutes_before_close
        /\ Abs(bot_tick'.change) >= bot_cfg.min_price_change_pct
        /\ bot_tick'.confidence >= bot_cfg.min_confidence

\* a tick (the clock stands still) for a ticker already in _traded_markets
TickForTradedTicker ==
    /\ bot_clock' = bot_clock
    /\ bot_tick'.ticker \in _traded_markets

\* C40: over any sequence of ticks at most one order is placed per market
\* ticker, and only on a tick with min_minutes_before_close <=
\* minutes_left <= max_minutes_before_close, a price change since the
\* window start of at least min_price_change_pct in absolute value and a
\* confidence of at least min_confidence; a tick for a ticker already in
\* _traded_markets places no order and leaves the price history unchanged.
C40_OneGatedOrderPerTicker ==
    /\ [](\A t \in BotTickers : Cardinality(OrdersFor(t)) <= 1)
    /\ [][BotOrderPlacedInStep =>
            /\ Len(_orders_placed') = Len(_orders_placed) + 1
            /\ _orders_placed'[Len(_orders_placed')].ticker = bot_tick'.ticker
            /\ BotGatesPassed]_vars
    /\ [][TickForTradedTicker =>
            UNCHANGED <<_orders_placed, _price_history>>]_vars

\* an order was placed for K1 with a non-empty price history, and a later
\* tick for K1 returned at the test of _traded_markets
C40_Witness ==
    /\ Cardinality(OrdersFor("K1")) = 1
    /\ "K1" \in _traded_markets
    /\ bot_tick.ticker = "K1" /\ bot_tick.did = "already_traded"
    /\ Len(_price_history) >= 1


(***************************************************************************)
(* ProbabilityDistribution.from_normal (src/models/forecast.py), called    *)
(* directly (specification SpecDist).  Temperatures are whole degrees, the *)
(* mean is a whole degree, the standard deviation is given in tenths of a  *)
(* degree, and probabilities are fixed-point numbers of four decimals,     *)
(* _normal_cdf being tabulated to that precision.                          *)
(***************************************************************************)

\* the unit of the tabulated probabilities: 1 is PhiScale
PhiScale == 10000
\* max(0.001, prob), in that unit
EpsFloor == 10

\* 0.5 * (1 + erf(z / sqrt(2))) at x - mean = 0, 0.5, 1, ... degrees, for a
\* standard deviation of std tenths of a degree; beyond the table it is 1
PhiTable(std) ==
    IF std = 5
    THEN <<5000, 8413, 9772, 9987>>
    ELSE IF std = 15
    THEN <<5000, 6306, 7475, 8413, 9088, 9522, 9772, 9902, 9962, 9987, 9996,
           9999>>
    ELSE <<5000, 5793, 6554, 7257, 7881, 8413, 8849, 9192, 9452, 9641, 9772,
           9861, 9918, 9953, 9974, 9987, 9993, 9997, 9998, 9999>>

\* _normal_cdf(x, mean, std), x2 and mean2 in half degrees
_normal_cdf(x2, mean2, std) ==
    LET d == Abs(x2 - mean2)
        t == PhiTable(std)
        upper == IF d + 1 > Len(t) THEN PhiScale ELSE t[d + 1]
    IN  IF x2 >= mean2 THEN upper ELSE PhiScale - upper

\* prob of the loop body of from_normal for the range (temp_min, temp_max)
RangeProb(temp_min, temp_max, mean, std) ==
    IF temp_min = NoTemp
    THEN _normal_cdf(2 * temp_max, 2 * mean, std)
    ELSE IF temp_max = NoTemp
    THEN PhiScale - _normal_cdf(2 * temp_min, 2 * mean, std)
    ELSE _normal_cdf(2 * temp_max + 1, 2 * mean, std)
         - _normal_cdf(2 * temp_min - 1, 2 * mean, std)

\* key of the loop body: "<{temp_max}", ">{temp_min}" or
\* "{temp_min}-{temp_max}", with nothing after the number
FromNormalKey(temp_min, temp_max) ==
    IF temp_min = NoTemp
    THEN [sign |-> "<", a |-> temp_max, b |-> NoTemp, unit |-> ""]
    ELSE IF temp_max = NoTemp
    THEN [sign |-> ">", a |-> temp_min, b |-> NoTemp, unit |-> ""]
    ELSE [sign |-> "-", a |-> temp_min, b |-> temp_max, unit |-> ""]

RECURSIVE SumProbs(_)
SumProbs(probs) ==
    IF probs = <<>> THEN 0 ELSE probs[1].prob + SumProbs(Tail(probs))

\* __post_init__: the values are divided by their total when the total is
\* further than 0.01 from 1; the quotient is cut to four decimals
post_init(probs) ==
    LET total == SumProbs(probs)
    IN  IF Abs(total - PhiScale) * 100 > PhiScale
        THEN [i \in DOMAIN probs |->
                [key |-> probs[i].key,
                 prob |-> (probs[i].prob * PhiScale) \div total]]
        ELSE probs

\* from_normal: one entry per bucket range (the ranges tried have distinct
\* keys), floored at 0.001, then the constructor
from_normal(mean, std, buckets) ==
    post_init([i \in DOMAIN buckets |->
                 [key |-> FromNormalKey(buckets[i][1], buckets[i][2]),
                  prob |-> Max(EpsFloor, RangeProb(buckets[i][1], buckets[i][2],
                                                  mean, std))]])

\* the largest number of two-degree ranges between the two tails
MaxRanges == 2
\* the threshold of the low tail
LowThresholds == {66, 68}
DistMeans == 62..74
DistStds == {5, 15}

\* a market's ranges as the exchange lists them: below lo, n ranges of two
\* degrees from lo up, above the last of them
Layout(lo, n) ==
    <<<<NoTemp, lo>>>>
    \o [i \in 1..n |-> <<lo + 2 * (i - 1), lo + 2 * (i - 1) + 1>>]
    \o <<<<lo + 2 * n - 1, NoTemp>>>>

Layouts(m) == {Layout(lo, n) : lo \in LowThresholds, n \in 1..m}

DistInit ==
    /\ \E m \in {MaxRanges} :
          dist_call \in [mean : DistMeans, std : DistStds, buckets : Layouts(m)]
    /\ dist_ret = NoDistribution

FromNormal ==
    /\ dist_ret' = [returned |-> TRUE,
                    probabilities |-> from_normal(dist_call.mean, dist_call.std,
                                                  dist_call.buckets)]
    /\ UNCHANGED dist_call
    /\ UNCHANGED notDistVars

DistNext == FromNormal

InitDist ==
    /\ DistInit /\ LedgerQuiet /\ RunInit /\ ClientQuiet /\ HedgedQuiet
    /\ SpreadQuiet /\ BotQuiet /\ KellyQuiet /\ CryptoQuiet
    /\ EntryQuiet /\ WeatherQuiet

SpecDist == InitDist /\ [][DistNext]_vars

\* C36: every probability in the distribution returned by from_normal is
\* at least the 0.001 floor, for every mean, standard deviation and list of
\* bucket ranges, including when the constructor renormalises.
C36_FloorSurvivesNormalisation ==
    dist_ret.returned =>
        \A i \in DOMAIN dist_ret.probabilities :
            dist_ret.probabilities[i].prob >= EpsFloor


(***************************************************************************)
(* WeatherBotStrategy._process_city (src/strategy/weather_bot.py) for one  *)
(* city (specification SpecWeather): the market and the forecast are drawn *)
(* in the initial state; every tick processes the city once.               *)
(***************************************************************************)

\* the constructor defaults: min_edge 0.05 in the unit of the
\* probabilities, prices in cents
WeatherConfig ==
    [min_edge |-> (5 * PhiScale) \div 100, min_price |-> 10, max_price |-> 50,
     base_contracts |-> 10]

\* yes_ask of a bucket, in cents
WeatherAsks == {5, 20, 60}
\* forecast.high_temp, in degrees
WeatherHighs == 62..70
\* estimate_forecast_uncertainty for 0 and 1 days ahead: 1.5 and 2.5 degrees
WeatherUncertainties == {15, 25}
\* the key of the market in _traded_markets
MarketKey == "NYC"

BucketTypeOf(range) ==
    IF range[1] = NoTemp THEN "tail_low"
    ELSE IF range[2] = NoTemp THEN "tail_high"
    ELSE "range"

WeatherTickers == <<"B1", "B2", "B3">>

\* the market of the city: below 66, 66 to 67, above 67
WeatherRanges == Layout(66, 1)

WeatherMarkets ==
    {[i \in DOMAIN WeatherRanges |->
        [ticker |-> WeatherTickers[i], temp_min |-> WeatherRanges[i][1],
         temp_max |-> WeatherRanges[i][2],
         bucket_type |-> BucketTypeOf(WeatherRanges[i]), yes_ask |-> asks[i]]] :
        asks \in [DOMAIN WeatherRanges -> WeatherAsks]}

\* Bucket.range_str: "<{temp_max}", ">{temp_min}" or "{temp_min}-{temp_max}"
\* by bucket type, each followed by the degree sign and F (unit "F")
range_str(bucket) ==
    IF bucket.bucket_type = "tail_low"
    THEN [sign |-> "<", a |-> bucket.temp_max, b |-> NoTemp, unit |-> "F"]
    ELSE IF bucket.bucket_type = "tail_high"
    THEN [sign |-> ">", a |-> bucket.temp_min, b |-> NoTemp, unit |-> "F"]
    ELSE [sign |-> "-", a |-> bucket.temp_min, b |-> bucket.temp_max,
          unit |-> "F"]

\* ProbabilityDistribution.get: self.probabilities.get(bucket_key, default)
DistGet(probabilities, bucket_key, default) ==
    IF \E i \in DOMAIN probabilities : probabilities[i].key = bucket_key
    THEN probabilities[CHOOSE i \in DOMAIN probabilities :
                          probabilities[i].key = bucket_key].prob
    ELSE default

\* Bucket.implied_prob: yes_ask / 100
ImpliedProb(bucket) == bucket.yes_ask * (PhiScale \div 100)

\* _forecast_to_distribution: from_normal over (temp_min, temp_max) of the
\* market's buckets
_forecast_to_distribution(fc, mkt) ==
    from_normal(fc.high_temp, fc.uncertainty,
                [i \in DOMAIN mkt |-> <<mkt[i].temp_min, mkt[i].temp_max>>])

\* _calculate_edges: one Edge per bucket, in the market's order
_calculate_edges(mkt, prob_dist) ==
    [i \in DOMAIN mkt |->
        LET bucket == mkt[i]
            model_prob == DistGet(prob_dist, range_str(bucket), 0)
            market_prob == ImpliedProb(bucket)
        IN  [bucket_ticker |-> bucket.ticker,
             model_prob |-> model_prob,
             edge |-> model_prob - market_prob,
             expected_value |-> model_prob * (100 - bucket.yes_ask)
                                  - (PhiScale - model_prob) * bucket.yes_ask,
             market_price |-> bucket.yes_ask]]

_is_tradeable(c, edge) ==
    IF edge.edge < c.min_edge THEN FALSE
    ELSE IF edge.market_price < c.min_price \/ edge.market_price > c.max_price
    THEN FALSE
    ELSE IF edge.expected_value <= 0 THEN FALSE
    ELSE TRUE

\* sorted(edges, key=edge, reverse=True): a stable sort, largest edge first
RECURSIVE InsertByEdgeDesc(_, _)
InsertByEdgeDesc(e, sorted) ==
    IF sorted = <<>> THEN <<e>>
    ELSE IF sorted[1].edge >= e.edge
    THEN <<sorted[1]>> \o InsertByEdgeDesc(e, Tail(sorted))
    ELSE <<e>> \o sorted

RECURSIVE SortedByEdgeDesc(_)
SortedByEdgeDesc(edges) ==
    IF edges = <<>> THEN <<>>
    ELSE InsertByEdgeDesc(edges[Len(edges)],
                          SortedByEdgeDesc(SubSeq(edges, 1, Len(edges) - 1)))

\* contracts = int(base_contracts * min(2.0, edge / min_edge))
EdgeContracts(c, edge) ==
    IF edge.edge >= 2 * c.min_edge THEN 2 * c.base_contracts
    ELSE (c.base_contracts * edge.edge) \div c.min_edge

\* the loop of _place_orders over edges, from the ledger acc on: one
\* place_order per edge until one raises
RECURSIVE PlaceEach(_, _, _, _)
PlaceEach(c, edges, acc, collab) ==
    IF edges = <<>> \/ acc.raised THEN acc
    ELSE LET edge == edges[1]
             contracts == EdgeContracts(c, edge)
             r == place_order(acc.risk, acc.orders, max_daily_risk, dry_run,
                              edge.bucket_ticker, contracts, edge.market_price,
                              "buy", collab)
         IN  PlaceEach(c, Tail(edges),
                       [risk |-> r.ledger.risk, orders |-> r.ledger.orders,
                        called |-> acc.called + (IF r.called THEN 1 ELSE 0),
                        n |-> acc.n + 1,
                        raised |-> r.outcome = "raised",
                        attempted |-> Append(acc.attempted, edge.bucket_ticker),
                        last |-> [outcome |-> r.outcome,
                                  ticker |-> edge.bucket_ticker,
                                  contracts |-> contracts,
                                  price |-> edge.market_price, side |-> "buy",
                                  risk_before |-> acc.risk]],
                       collab)

\* _place_orders: the three largest edges
_place_orders(c, edges, collab) ==
    LET sorted == SortedByEdgeDesc(edges)
        top == SubSeq(sorted, 1, Min(3, Len(sorted)))
    IN  PlaceEach(c, top,
                  [risk |-> _daily_risk, orders |-> _orders_placed, called |-> 0,
                   n |-> 0, raised |-> FALSE, attempted |-> <<>>,
                   last |-> last_call],
                  collab)

\* a tick that returns before the edges are computed
CityLeftAlone(did) ==
    /\ w_ret' = [NoCityReturn EXCEPT !.did = did]
    /\ UNCHANGED w_traded
    /\ UNCHANGED ledgerVars

\* steps 3 to 7 of _process_city and the mark that follows them
CityEdges ==
    LET prob_dist == _forecast_to_distribution(w_forecast, w_market)
        edges == _calculate_edges(w_market, prob_dist)
        tradeable == SelectSeq(edges, LAMBDA e : _is_tradeable(WeatherConfig, e))
        seen == [NoCityReturn EXCEPT !.edges = edges, !.tradeable = tradeable]
    IN  IF tradeable = <<>>
        THEN /\ w_ret' = [seen EXCEPT !.did = "no_edge"]
             /\ UNCHANGED w_traded
             /\ UNCHANGED ledgerVars
        ELSE \E collab \in CollabOutcomes :
                LET r == _place_orders(WeatherConfig, tradeable, collab)
                IN  /\ _daily_risk' = r.risk
                    /\ _orders_placed' = r.orders
                    /\ kalshi_calls' = kalshi_calls + r.called
                    /\ ncalls' = ncalls + r.n
                    /\ last_call' = r.last
                    /\ UNCHANGED <<max_daily_risk, dry_run>>
                    /\ w_ret' = [seen EXCEPT
                                   !.did = IF r.raised THEN "error" ELSE "traded",
                                   !.attempted = r.attempted]
                    /\ w_traded' = IF r.raised THEN w_traded
                                   ELSE w_traded \cup {MarketKey}

\* on_tick for the one city: _process_city inside try / except Exception
ProcessCity ==
    /\ IF MarketKey \in w_traded
       THEN CityLeftAlone("already_traded")
       ELSE \/ CityLeftAlone("no_market")
            \/ CityLeftAlone("closed")
            \/ CityLeftAlone("forecast_error")
            \/ CityLeftAlone("error")
            \/ CityEdges
    /\ UNCHANGED <<w_market, w_forecast>>
    /\ UNCHANGED notWeatherVars

WeatherNext == ProcessCity

\* run_weather_bot: a fresh strategy with a risk ceiling of 50 dollars
InitWeather ==
    /\ w_market \in WeatherMarkets
    /\ w_forecast \in [high_temp : WeatherHighs,
                        uncertainty : WeatherUncertainties]
    /\ w_traded = {}
    /\ w_ret = NoCityReturn
    /\ max_daily_risk = 5000
    /\ dry_run \in BOOLEAN
    /\ _daily_risk = 0
    /\ _orders_placed = <<>>
    /\ kalshi_calls = 0
    /\ ncalls = 0
    /\ last_call = NoCall
    /\ RunInit /\ ClientQuiet /\ HedgedQuiet /\ SpreadQuiet /\ BotQuiet
    /\ KellyQuiet /\ CryptoQuiet /\ EntryQuiet /\ DistQuiet

SpecWeather == InitWeather /\ [][WeatherNext]_vars

\* the probability from_normal computed for the range of bucket i
ForecastProb(i) ==
    _forecast_to_distribution(w_forecast, w_market)[i].prob

\* bucket i is priced within [min_price, max_price] and its forecast
\* probability exceeds ask / 100 by at least min_edge
WorthBuying(i) ==
    /\ ForecastProb(i) - ImpliedProb(w_market[i]) >= WeatherConfig.min_edge
    /\ w_market[i].yes_ask >= WeatherConfig.min_price
    /\ w_market[i].yes_ask <= WeatherConfig.max_price

TickersOf(edges) == {edges[j].bucket_ticker : j \in DOMAIN edges}

\* C35: the model probability used for each bucket's edge is the
\* probability from_normal computed for that bucket's range, never the
\* lookup default 0.0, so that a bucket whose forecast probability exceeds
\* ask/100 by at least min_edge, with ask within [min_price, max_price], is
\* classified tradeable and an order is attempted for it.
C35_EdgeUsesForecastProbability ==
    w_ret.did \in {"no_edge", "traded"} =>
        \A i \in DOMAIN w_market :
            /\ w_ret.edges[i].model_prob = ForecastProb(i)
            /\ WorthBuying(i) =>
                   /\ w_market[i].ticker \in TickersOf(w_ret.tradeable)
                   /\ \E j \in DOMAIN w_ret.attempted :
                         w_ret.attempted[j] = w_market[i].ticker

=============================================================================
